---- MODULE Spec2Model ----
(***************************************************************************)
(* The notification de-duplication and reply-dispatch loop of zAi:         *)
(* bot.py (durable processed_uris file + in-memory set) and server.py      *)
(* (PROCESSED_NOTIFS_THIS_RUN + server-side is_read + already-replied      *)
(* check).  The Bluesky service and the completion backends are the        *)
(* environment: every call may succeed or fail.                            *)
(***************************************************************************)
EXTENDS Integers, Sequences, FiniteSets, TLC

(* ------------------------------ bounds --------------------------------- *)
\* notifications that ever reach the account
NumNotifs == 2
\* lines the durable file can hold before a write fails (storage full)
MaxFile == 2
\* replies the service accepts from the account before every send_post fails
MaxReplies == 2
\* posts on the longest root-to-leaf path get_post_thread returns
MaxThread == 3
\* models in AI_MODEL_LIST
NumModels == 3
\* the value up to which consecutive_idle_cycles is followed
MaxIdle == 2
\* characters of the longest identifier written to the backing file
MaxUriLen == 2
\* calls of append_processed_uri on one backing file
MaxAppends == 3

(* ------------------------- program constants --------------------------- *)
NOTIFICATION_FETCH_LIMIT == 30
MAX_POST_LEN == 300
TRUNCATE_AT == 297
ELLIPSIS_LEN == 3
\* os.getenv("MENTION_CHECK_INTERVAL_SECONDS", "30"): the seconds to sleep
MENTION_CHECK_INTERVAL_SECONDS == "30"

BLUESKY_HANDLE == "bot"
IGNORED_DIDS == {"did:ignored"}
Absent == "absent"
NoUri == 0
Procs == {1, 2}
Slots == 1 .. NumNotifs

(* --------------------------- notifications ----------------------------- *)
\* The kinds of notification the service delivers: hasUri says whether the
\* object carries a uri attribute, the other fields are Absent when the
\* attribute is missing.
Shapes ==
  { [hasUri |-> TRUE,  did |-> "did:alice",   handle |-> "alice", reason |-> "mention", cid |-> "cid", root |-> "none"],
    [hasUri |-> TRUE,  did |-> "did:alice",   handle |-> "alice", reason |-> "like",    cid |-> "cid", root |-> "none"],
    [hasUri |-> TRUE,  did |-> "did:ignored", handle |-> "troll", reason |-> "mention", cid |-> "cid", root |-> "none"],
    [hasUri |-> TRUE,  did |-> "did:ignored", handle |-> "troll", reason |-> "mention", cid |-> Absent, root |-> "none"],
    [hasUri |-> TRUE,  did |-> "did:bot",     handle |-> "bot",   reason |-> "mention", cid |-> "cid", root |-> "none"],
    [hasUri |-> TRUE,  did |-> "did:bot",     handle |-> "bot",   reason |-> "like",    cid |-> "cid", root |-> "none"],
    [hasUri |-> FALSE, did |-> "did:alice",   handle |-> "alice", reason |-> "mention", cid |-> "cid", root |-> "none"] }

\* Replies to a post of a thread: root says what record.reply.root of the
\* notification's record carries: "ref" a reference with uri and cid, "nocid"
\* an object without cid, "none" no reply / no root (the other shapes)
ReplyShapes ==
  { [hasUri |-> TRUE, did |-> "did:alice", handle |-> "alice", reason |-> "reply", cid |-> "cid", root |-> "ref"],
    [hasUri |-> TRUE, did |-> "did:alice", handle |-> "alice", reason |-> "reply", cid |-> "cid", root |-> "nocid"],
    [hasUri |-> TRUE, did |-> "did:alice", handle |-> "alice", reason |-> "mention", cid |-> "cid", root |-> "none"] }

\* record.reply.root of the notification in slot k: the root post of its
\* thread is another post than the notification's
ReplyRoot(k, root) ==
  [uri |-> IF root \in {"ref", "nocid"} THEN NumNotifs + k ELSE NoUri,
   cid |-> IF root = "ref" THEN "rootcid" ELSE Absent]

\* The notification in slot k: its uri is k (when it has one) and it is
\* indexed at k, slots being filled in arrival order.
Notif(k, s) ==
  [slot |-> k, uri |-> IF s.hasUri THEN k ELSE NoUri, did |-> s.did,
   handle |-> s.handle, reason |-> s.reason, cid |-> s.cid, indexed_at |-> k,
   is_read |-> FALSE, reply_root |-> ReplyRoot(k, s.root)]

NoNotif ==
  [slot |-> 0, uri |-> NoUri, did |-> Absent, handle |-> Absent,
   reason |-> Absent, cid |-> Absent, indexed_at |-> 0, is_read |-> FALSE,
   reply_root |-> ReplyRoot(0, "none")]

\* the notifications the service delivers to a given run
EligibleShapes == {s \in Shapes : s.hasUri /\ s.cid # Absent /\ s.did = "did:alice" /\ s.reason = "mention"}

\* a reply text: its length, whether it ends in the ellipsis, and the
\* notification whose completion call produced it (for = 0: no text yet)
NoText == [len |-> 0, ell |-> FALSE, for |-> 0]
TextLens == {1, MAX_POST_LEN, MAX_POST_LEN + 1}

\* models.ComAtprotoRepoStrongRef.Main(cid=notif.cid, uri=notif.uri)
ParentRef(n) == [uri |-> n.uri, cid |-> n.cid]

RootRef_AlwaysParent(n) == [uri |-> n.uri, cid |-> n.cid]

\* root_ref: record.reply.root when it has both cid and uri, else parent_ref
RootRef(n) ==
  IF n.reply_root.uri # NoUri /\ n.reply_root.cid # Absent
    THEN n.reply_root ELSE ParentRef(n)

\* models.AppBskyFeedPost.ReplyRef(root=root_ref, parent=parent_ref)
ReplyRef(n) == [root |-> RootRef(n), parent |-> ParentRef(n)]
NoReplyRef == ReplyRef(NoNotif)

VARIABLES
  config,            \* which program runs, and its reply-generation settings
  server,            \* notifications at the service, in arrival order
  seenAt,            \* the service's seen marker (update_seen)
  replies,           \* replies[k]: replies posted under notification k
  file,              \* the processed_uris file of bot.py, one uri per line
  pc,                \* pc[p]: where process p is in main()
  processed_uris,    \* bot.py: the in-memory set of process p
  PROCESSED_NOTIFS_THIS_RUN,  \* server.py: the in-run set
  notifications,     \* the part of the fetched batch still to be iterated
  notif,             \* the loop variable: the notification being handled
  thread_history,    \* local of main(): result of fetch_thread_context
  most_recent_post,  \* local of main(): result of fetch_thread_context
  reply_text,        \* local of main(): the generated reply
  key_index,         \* get_openrouter_reply: the credential being tried
  model_to_try,      \* get_openrouter_reply: the model being tried
  reply_to,          \* local of main(): the ReplyRef handed to send_post
  calls,             \* history: the calls main() made for notif so far
  attempts,          \* history: the completion calls of one reply generation
  appended,          \* history: the identifiers passed to append_processed_uri
  consecutive_idle_cycles,                 \* local of main()
  new_notifications_processed_this_cycle,  \* local of main()
  notifications_fetched_count,             \* local of main()
  skipped_this_round_total,                \* bot.py: local of main()
  current_batch_latest_timestamp,  \* server.py: local of main()
  cycleStore,        \* history: the uris in the durable file when the cycle started
  ev                 \* history: the last call made

envVars == <<server, seenAt, replies>>
\* the locals of one iteration of the for loop
pipeline == <<thread_history, most_recent_post, reply_text, key_index, model_to_try,
              reply_to, calls>>
locals  == <<notifications, notif, pipeline>>
\* the counters of a cycle and the idle counter
cycleCounts == <<new_notifications_processed_this_cycle, notifications_fetched_count,
                 skipped_this_round_total>>
idle == <<consecutive_idle_cycles, cycleCounts>>
vars == <<config, server, seenAt, replies, file, pc, processed_uris,
          PROCESSED_NOTIFS_THIS_RUN, notifications, notif, thread_history,
          most_recent_post, reply_text, key_index, model_to_try, reply_to,
          calls, attempts, appended, consecutive_idle_cycles,
          new_notifications_processed_this_cycle, notifications_fetched_count,
          skipped_this_round_total, current_batch_latest_timestamp, cycleStore, ev>>

\* a call: the operation, the process, the notification it is made for, its
\* result, whether it returned normally, and the text it carried
Event(op, p, n, res, ok, text) ==
  [op |-> op, p |-> p, n |-> n, res |-> res, ok |-> ok, text |-> text]

(* ----------------------------- helpers --------------------------------- *)
RECURSIVE Reverse(_)
Reverse(s) == IF s = <<>> THEN <<>> ELSE Append(Reverse(Tail(s)), Head(s))

Take(s, k) == IF Len(s) <= k THEN s ELSE SubSeq(s, 1, k)

Range(s) == {s[i] : i \in DOMAIN s}

\* list_notifications(limit): the newest notifications first, at most limit
ListNotifications(srv, limit) == Take(Reverse(srv), limit)

(* ------------------------- durable de-dup store ------------------------ *)
\* a load that returns nothing
LoadProcessedUris_Forgets(f) == {}

\* load_processed_uris: the set of non-empty lines of the file
LoadProcessedUris(f) == {f[i] : i \in DOMAIN f} \ {NoUri}

\* append_processed_uri: one more line; ok = FALSE is a write that raises
CanWrite(f) == Len(f) < MaxFile
\* a write that replaces the file (mode "w")
AppendProcessedUri_Overwrites(f, uri) == <<uri>>

AppendProcessedUri(f, uri) == Append(f, uri)

(* --------------------------- classification ---------------------------- *)
BotMalformed(n) ==
  n.uri = NoUri \/ n.reason = Absent \/ n.cid = Absent
    \/ n.handle = Absent \/ n.did = Absent

\* bot.py with the already-processed check moved to the front
BotClassify_DuplicateFirst(n, processed) ==
  IF n.uri # NoUri /\ n.uri \in processed THEN "skip-duplicate"
  ELSE IF BotMalformed(n) THEN "skip-malformed"
  ELSE IF n.did \in IGNORED_DIDS THEN "skip-ignored"
  ELSE IF n.handle = BLUESKY_HANDLE THEN "skip-self"
  ELSE IF n.reason \notin {"mention", "reply"} THEN "skip-wrong-reason"
  ELSE "eligible"

\* bot.py without the IGNORED_DIDS check
BotClassify_NoIgnoreCheck(n, processed) ==
  IF BotMalformed(n) THEN "skip-malformed"
  ELSE IF n.uri \in processed THEN "skip-duplicate"
  ELSE IF n.handle = BLUESKY_HANDLE THEN "skip-self"
  ELSE IF n.reason \notin {"mention", "reply"} THEN "skip-wrong-reason"
  ELSE "eligible"

\* bot.py, the chain of checks guarded by is_skipped_this_notif
BotClassify(n, processed) ==
  IF BotMalformed(n) THEN "skip-malformed"
  ELSE IF n.did \in IGNORED_DIDS THEN "skip-ignored"
  ELSE IF n.uri \in processed THEN "skip-duplicate"
  ELSE IF n.handle = BLUESKY_HANDLE THEN "skip-self"
  ELSE IF n.reason \notin {"mention", "reply"} THEN "skip-wrong-reason"
  ELSE "eligible"

\* an append on the already-processed branch as well
BotRecordsOnSkip_AlsoDuplicate(n, d) ==
  \/ d \in {"skip-malformed", "skip-duplicate"} /\ n.uri # NoUri
  \/ d \in {"skip-ignored", "skip-self", "skip-wrong-reason"}

\* the branches of bot.py that append the uri before skipping
BotRecordsOnSkip(n, d) ==
  \/ d = "skip-malformed" /\ n.uri # NoUri
  \/ d \in {"skip-ignored", "skip-self", "skip-wrong-reason"}

(* ------------------------- thread resolution --------------------------- *)
\* what get_post_thread can answer: an exception, a response without a
\* traversable thread, or a thread node with its chain of parents: posts[1]
\* is the requested post, posts[i + 1] the parent of posts[i], up to the
\* root.  A post is named by its depth in the thread, the root being 1 (it
\* stands for the text "@author: ..." of that post).
ThreadOutcomes ==
  {[kind |-> "error", posts |-> <<>>], [kind |-> "nothread", posts |-> <<>>]}
    \cup {[kind |-> "thread", posts |-> [i \in 1 .. k |-> k + 1 - i]] : k \in 0 .. MaxThread}

NoPost == 0

\* a traversal that appends the node's post before following its parent
RECURSIVE Traverse_LeafFirst(_)
Traverse_LeafFirst(nodes) ==
  IF nodes = <<>> THEN <<>>
  ELSE <<Head(nodes)>> \o Traverse_LeafFirst(Tail(nodes))

\* traverse(node): first the parent, then thread_posts.append of the node's post
RECURSIVE Traverse(_)
Traverse(nodes) ==
  IF nodes = <<>> THEN <<>>
  ELSE Append(Traverse(Tail(nodes)), Head(nodes))

\* a fetch_thread_context that hands a placeholder post to the caller when
\* the fetch failed
FetchThreadContext_Placeholder(o) ==
  IF o.kind # "thread" THEN [th |-> <<>>, mrp |-> 1]
  ELSE LET thread_posts == Traverse(o.posts) IN
       [th  |-> IF thread_posts = <<>> THEN <<>>
                ELSE SubSeq(thread_posts, 1, Len(thread_posts) - 1),
        mrp |-> IF thread_posts = <<>> THEN NoPost ELSE thread_posts[Len(thread_posts)]]

\* fetch_thread_context: (thread_history, most_recent_post), that is
\* thread_posts[:-1] and thread_posts[-1]
FetchThreadContext(o) ==
  IF o.kind # "thread" THEN [th |-> <<>>, mrp |-> NoPost]
  ELSE LET thread_posts == Traverse(o.posts) IN
       [th  |-> IF thread_posts = <<>> THEN <<>>
                ELSE SubSeq(thread_posts, 1, Len(thread_posts) - 1),
        mrp |-> IF thread_posts = <<>> THEN NoPost ELSE thread_posts[Len(thread_posts)]]

(* --------------------------- reply generation -------------------------- *)
\* what one completion call can answer: a well-formed response whose content,
\* once stripped, has len characters (0: only whitespace), or a failure
FailKinds == {"malformed", "timeout", "http429", "http", "error"}
Outcomes ==
  {[kind |-> "text", len |-> l] : l \in {0} \cup TextLens}
    \cup {[kind |-> f, len |-> 0] : f \in FailKinds}
Models == 1 .. NumModels

\* the result of one pass through the body of the model loop: either the
\* function returns text (done), or the loop goes on at (key, model)
Return(t) == [done |-> TRUE, text |-> t, key |-> 1, model |-> 1]
GoOn(key, m) == [done |-> FALSE, text |-> NoText, key |-> key, model |-> m]

\* a generator that gives up at the first failing model
BotAttempt_GivesUp(m, o, k) ==
  IF o.kind = "text" THEN Return([len |-> o.len, ell |-> FALSE, for |-> k])
  ELSE Return(NoText)

\* a generator that calls the failing model again
BotAttempt_RetriesSameModel(m, o, k) ==
  IF o.kind = "text" THEN Return([len |-> o.len, ell |-> FALSE, for |-> k])
  ELSE GoOn(1, m)

\* bot.py get_openrouter_reply, one completion call: model m answers o for
\* notification k.  A well-formed response returns its stripped content;
\* anything else moves on to the next model, and "" once the list is done.
BotAttempt(m, o, k) ==
  IF o.kind = "text" THEN Return([len |-> o.len, ell |-> FALSE, for |-> k])
  ELSE IF m < NumModels THEN GoOn(1, m + 1)
  ELSE Return(NoText)

\* server.py get_openrouter_reply, one completion call under credential key
\* (1 primary, 2 secondary); secondary says whether a second key is configured
SrvNextModel(key, m, secondary) ==
  IF m < NumModels THEN GoOn(key, m + 1)
  ELSE IF key = 1 /\ secondary THEN GoOn(2, 1)
  ELSE Return(NoText)

\* a generator that treats HTTP 429 like any other failure
SrvAttempt_No429Switch(key, m, o, k, secondary) ==
  IF o.kind = "text" THEN Return([len |-> o.len, ell |-> FALSE, for |-> k])
  ELSE SrvNextModel(key, m, secondary)

SrvAttempt(key, m, o, k, secondary) ==
  IF o.kind = "http429"
    THEN IF key = 1 /\ secondary THEN GoOn(2, 1)      \* break
         ELSE SrvNextModel(key, m, secondary)          \* continue
  ELSE IF o.kind = "text" THEN Return([len |-> o.len, ell |-> FALSE, for |-> k])
  ELSE SrvNextModel(key, m, secondary)

\* server.py get_gemini_direct_reply: a single call, "" when it raises
GeminiAttempt(o, k) ==
  IF o.kind = "text" THEN Return([len |-> o.len, ell |-> FALSE, for |-> k])
  ELSE Return(NoText)

\* a missing "if not reply_text" check
IsEmptyText_Never(t) == FALSE

\* "if not reply_text"
IsEmptyText(t) == t.len = 0

\* a truncation that also cuts a text of exactly 300 characters
Truncate_From300(t) ==
  IF t.len >= MAX_POST_LEN
    THEN [t EXCEPT !.len = TRUNCATE_AT + ELLIPSIS_LEN, !.ell = TRUE]
    ELSE t

\* if len(reply_text) > 300: reply_text = reply_text[:297] + "..."
Truncate(t) ==
  IF t.len > MAX_POST_LEN
    THEN [t EXCEPT !.len = TRUNCATE_AT + ELLIPSIS_LEN, !.ell = TRUE]
    ELSE t

(* --------------------- server.py: classification ----------------------- *)
\* sorted(notifications, key=lambda n: n.indexed_at): a stable insertion sort
RECURSIVE InsertByIndexedAt(_, _)
InsertByIndexedAt(n, s) ==
  IF s = <<>> THEN <<n>>
  ELSE IF n.indexed_at < Head(s).indexed_at THEN <<n>> \o s
  ELSE <<Head(s)>> \o InsertByIndexedAt(n, Tail(s))

RECURSIVE SortedByIndexedAt(_)
SortedByIndexedAt(s) ==
  IF s = <<>> THEN <<>>
  ELSE InsertByIndexedAt(s[Len(s)], SortedByIndexedAt(SubSeq(s, 1, Len(s) - 1)))

SrvMalformed(n) ==
  n.uri = NoUri \/ n.reason = Absent \/ n.cid = Absent
    \/ n.handle = Absent \/ n.did = Absent

\* server.py with the reason check ahead of the self check
SrvClassify_ReasonBeforeSelf(n, processed) ==
  IF n.uri = NoUri THEN "raise"
  ELSE IF n.is_read /\ n.uri \notin processed THEN "skip-read"
  ELSE IF n.uri \in processed THEN "skip-duplicate"
  ELSE IF SrvMalformed(n) THEN "skip-malformed"
  ELSE IF n.did \in IGNORED_DIDS THEN "skip-ignored"
  ELSE IF n.reason \notin {"mention", "reply"} THEN "skip-wrong-reason"
  ELSE IF n.handle = BLUESKY_HANDLE THEN "skip-self"
  ELSE "eligible"

\* server.py, the chain of "continue" checks of the for loop; reading
\* notif.uri of a notification that has none raises AttributeError
SrvClassify(n, processed) ==
  IF n.uri = NoUri THEN "raise"
  ELSE IF n.is_read /\ n.uri \notin processed THEN "skip-read"
  ELSE IF n.uri \in processed THEN "skip-duplicate"
  ELSE IF SrvMalformed(n) THEN "skip-malformed"
  ELSE IF n.did \in IGNORED_DIDS THEN "skip-ignored"
  ELSE IF n.handle = BLUESKY_HANDLE THEN "skip-self"
  ELSE IF n.reason \notin {"mention", "reply"} THEN "skip-wrong-reason"
  ELSE "eligible"

\* no add before the reply pipeline of an eligible notification
SrvAddsToProcessed_NotEligible(d) ==
  d \in {"skip-malformed", "skip-ignored", "skip-self", "skip-wrong-reason"}

\* a loop that keeps no in-run set
SrvAddsToProcessed_Never(d) == FALSE

\* the branches of server.py that add the uri to PROCESSED_NOTIFS_THIS_RUN
SrvAddsToProcessed(d) ==
  d \in {"skip-malformed", "skip-ignored", "skip-self", "skip-wrong-reason", "eligible"}

\* a check that fails closed: a thread that cannot be fetched counts as replied
HasBotAlreadyReplied_FailsClosed(o, botReplies) ==
  IF o.kind # "thread" THEN TRUE ELSE botReplies > 0

\* has_bot_already_replied: True only when the thread was fetched and one of
\* the direct replies is authored by the bot; any failure reports False
HasBotAlreadyReplied(o, botReplies) ==
  IF o.kind # "thread" THEN FALSE ELSE botReplies > 0

(* ------------------------------- state --------------------------------- *)
\* startup says what load_env_and_config_files finds: "ok", or the mandatory
\* credentials missing, or (server.py) the system prompt file unreadable
Configs ==
  { [program |-> "bot.py",    USE_GEMINI_DIRECTLY |-> FALSE, OPENROUTER_API_KEY_SECONDARY |-> FALSE, startup |-> "ok"],
    [program |-> "server.py", USE_GEMINI_DIRECTLY |-> TRUE,  OPENROUTER_API_KEY_SECONDARY |-> FALSE, startup |-> "ok"],
    [program |-> "server.py", USE_GEMINI_DIRECTLY |-> FALSE, OPENROUTER_API_KEY_SECONDARY |-> FALSE, startup |-> "ok"],
    [program |-> "server.py", USE_GEMINI_DIRECTLY |-> FALSE, OPENROUTER_API_KEY_SECONDARY |-> TRUE,  startup |-> "ok"],
    [program |-> "bot.py",    USE_GEMINI_DIRECTLY |-> FALSE, OPENROUTER_API_KEY_SECONDARY |-> FALSE, startup |-> "no-credentials"],
    [program |-> "server.py", USE_GEMINI_DIRECTLY |-> FALSE, OPENROUTER_API_KEY_SECONDARY |-> FALSE, startup |-> "no-credentials"],
    [program |-> "server.py", USE_GEMINI_DIRECTLY |-> FALSE, OPENROUTER_API_KEY_SECONDARY |-> FALSE, startup |-> "no-prompt"] }

Init ==
  /\ config \in Configs
  /\ server = <<>>
  /\ seenAt = 0
  /\ replies = [k \in Slots |-> 0]
  /\ file = <<>>
  /\ pc = [p \in Procs |-> "down"]
  /\ processed_uris = [p \in Procs |-> {}]
  /\ PROCESSED_NOTIFS_THIS_RUN = {}
  /\ notifications = [p \in Procs |-> <<>>]
  /\ notif = [p \in Procs |-> NoNotif]
  /\ thread_history = [p \in Procs |-> <<>>]
  /\ most_recent_post = [p \in Procs |-> NoPost]
  /\ reply_text = [p \in Procs |-> NoText]
  /\ key_index = [p \in Procs |-> 1]
  /\ model_to_try = [p \in Procs |-> 1]
  /\ reply_to = [p \in Procs |-> NoReplyRef]
  /\ calls = [p \in Procs |-> <<>>]
  /\ attempts = <<>>
  /\ appended = {}
  /\ consecutive_idle_cycles = [p \in Procs |-> 0]
  /\ new_notifications_processed_this_cycle = [p \in Procs |-> 0]
  /\ notifications_fetched_count = [p \in Procs |-> 0]
  /\ skipped_this_round_total = [p \in Procs |-> 0]
  /\ current_batch_latest_timestamp = 0
  /\ cycleStore = [p \in Procs |-> {}]
  /\ ev = Event("init", 0, NoNotif, "", TRUE, NoText)

(* ---------------------------- environment ------------------------------ *)
\* a new notification, of one of the given shapes, reaches the account
Arrive(shapes) ==
  /\ Len(server) < NumNotifs
  /\ \E s \in shapes : server' = Append(server, Notif(Len(server) + 1, s))
  /\ ev' = Event("arrive", 0, NoNotif, "", TRUE, NoText)
  /\ UNCHANGED <<config, seenAt, replies, file, pc, processed_uris,
                 PROCESSED_NOTIFS_THIS_RUN, locals,
                 current_batch_latest_timestamp, cycleStore, attempts, appended, idle>>

\* What the calls to the outside can answer; faults = FALSE is a service, a
\* backend and a storage that never fail.
PollResults(faults) == IF faults THEN {"ok", "malformed", "error"} ELSE {"ok"}
ThreadResults(faults) ==
  IF faults THEN ThreadOutcomes
  ELSE {o \in ThreadOutcomes : o.kind = "thread" /\ o.posts # <<>>}
CompletionResults(faults) ==
  IF faults THEN Outcomes ELSE {o \in Outcomes : o.kind = "text" /\ o.len = 1}
RECURSIVE Sum(_, _)
Sum(f, k) == IF k = 0 THEN 0 ELSE f[k] + Sum(f, k - 1)
SendResults(faults) ==
  IF Sum(replies, NumNotifs) >= MaxReplies THEN {FALSE}
  ELSE IF faults THEN {TRUE, FALSE} ELSE {TRUE}
WriteResults(faults) ==
  IF ~CanWrite(file) THEN {FALSE}
  ELSE IF faults THEN {TRUE, FALSE} ELSE {TRUE}

\* the locals of the pipeline are dead between two iterations: the model
\* holds them at their initial values there
ClearPipeline(p) ==
  /\ thread_history' = [thread_history EXCEPT ![p] = <<>>]
  /\ most_recent_post' = [most_recent_post EXCEPT ![p] = NoPost]
  /\ reply_text' = [reply_text EXCEPT ![p] = NoText]
  /\ key_index' = [key_index EXCEPT ![p] = 1]
  /\ model_to_try' = [model_to_try EXCEPT ![p] = 1]
  /\ reply_to' = [reply_to EXCEPT ![p] = NoReplyRef]
  /\ calls' = [calls EXCEPT ![p] = <<>>]

\* one more call made for the notification being handled
Called(p, op) == calls' = [calls EXCEPT ![p] = Append(@, op)]

\* an exception that ends the process
OnException_Escapes == "down"

\* a cycle that calls update_seen on its way out of an exception
OnException_MarksSeen == "update_seen"

\* an exception raised inside the cycle's try block: the except clauses log
\* it and control reaches the idle bookkeeping and the sleep
OnException == "endcycle"

\* the except clauses of bot.py: consecutive_idle_cycles = 0
BotHandler(p, raised) ==
  consecutive_idle_cycles' =
    [consecutive_idle_cycles EXCEPT ![p] = IF raised THEN 0 ELSE @]

\* counter += 1
Incr(counter, p) == [counter EXCEPT ![p] = @ + 1]

\* consecutive_idle_cycles is only logged and displayed.  The model follows
\* it up to idleCap and holds it there; the specifications that do not
\* speak of the counter follow it up to 0.
Capped(n, idleCap) == IF n > idleCap THEN idleCap ELSE n

\* the counters of a cycle are dead between two cycles: the model holds
\* them at zero there (the loop sets them to zero at its top)
ClearCycleCounts(p) ==
  /\ new_notifications_processed_this_cycle' =
       [new_notifications_processed_this_cycle EXCEPT ![p] = 0]
  /\ notifications_fetched_count' = [notifications_fetched_count EXCEPT ![p] = 0]
  /\ skipped_this_round_total' = [skipped_this_round_total EXCEPT ![p] = 0]

(* ------------------------------- bot.py -------------------------------- *)
\* the for loop: on to the next notification of the batch, or out of the loop
NextPc(rest) == IF rest = <<>> THEN "endcycle" ELSE "classify"

\* an update in the other order: processed_uris.add(uri), then
\* append_processed_uri(uri), so that a write that raises leaves the
\* identifier in memory only
RecordUri_AddFirst(p, uri, ok) ==
  /\ processed_uris' = [processed_uris EXCEPT ![p] = @ \cup {uri}]
  /\ IF ok
       THEN /\ file' = AppendProcessedUri(file, uri)
            /\ appended' = appended \cup {uri}
       ELSE UNCHANGED <<file, appended>>

\* append_processed_uri(uri); processed_uris.add(uri).  ok = FALSE: the
\* write raises, nothing is appended and the add is not reached.
RecordUri(p, uri, ok) ==
  IF ok
    THEN /\ file' = AppendProcessedUri(file, uri)
         /\ appended' = appended \cup {uri}
         /\ processed_uris' = [processed_uris EXCEPT ![p] = @ \cup {uri}]
    ELSE UNCHANGED <<file, processed_uris, appended>>

\* bot.py with credentials missing: load_env_and_config_files calls
\* interactive_env_setup, which asks its questions with input() and ends in
\* sys.exit(0); with stdin closed input() raises EOFError, nothing catches
\* it, and the interpreter exits with status 1
SetupOutcomes == {"completed", "eof"}
BotStartupExit(o) == IF o = "completed" THEN "0" ELSE "1"

\* server.py with credentials missing or the prompt file unreadable:
\* logging.critical and sys.exit(1)
SrvStartupExit == "1"

\* main(), startup: load_env_and_config_files, then
\* processed_uris = load_processed_uris()
BotStart(p) ==
  /\ config.program = "bot.py"
  /\ pc[p] = "down"
  /\ IF config.startup = "ok"
       THEN /\ processed_uris' = [processed_uris EXCEPT ![p] = LoadProcessedUris(file)]
            /\ pc' = [pc EXCEPT ![p] = "poll"]
            /\ ev' = Event("load_processed_uris", p, NoNotif, "", TRUE, NoText)
       ELSE /\ \E o \in SetupOutcomes :
                 ev' = Event("sys.exit", p, NoNotif, BotStartupExit(o), FALSE, NoText)
            /\ UNCHANGED <<processed_uris, pc>>
  /\ UNCHANGED <<config, envVars, file, PROCESSED_NOTIFS_THIS_RUN, locals,
                 current_batch_latest_timestamp, cycleStore, attempts, appended, idle>>

\* a malformed response answered by "continue" alone
AfterMalformed_NoSleep == "poll"

\* bot.py, "if not notifications_response or not hasattr(...)":
\* logging.warning, time.sleep(MENTION_CHECK_INTERVAL_SECONDS), continue
AfterMalformed == "malformed"

\* top of the while loop: list_notifications
BotPoll(p, faults) ==
  /\ config.program = "bot.py"
  /\ pc[p] = "poll"
  /\ cycleStore' = [cycleStore EXCEPT ![p] = Range(file)]
  /\ \E r \in PollResults(faults) :
       /\ ev' = Event("list_notifications", p, NoNotif, r, r = "ok", NoText)
       /\ BotHandler(p, r = "error")
       /\ IF r = "ok"
            THEN LET batch == ListNotifications(server, NOTIFICATION_FETCH_LIMIT) IN
                 /\ notifications' = [notifications EXCEPT ![p] = batch]
                 /\ notifications_fetched_count' =
                      [notifications_fetched_count EXCEPT ![p] = Len(batch)]
                 /\ pc' = [pc EXCEPT ![p] = NextPc(batch)]
            ELSE /\ UNCHANGED <<notifications, notifications_fetched_count>>
                 \* malformed response: sleep and continue; exception: handler
                 /\ pc' = [pc EXCEPT ![p] = IF r = "malformed" THEN AfterMalformed
                                            ELSE OnException]
  /\ UNCHANGED <<config, envVars, file, processed_uris, PROCESSED_NOTIFS_THIS_RUN,
                 notif, pipeline, current_batch_latest_timestamp, attempts, appended,
                 new_notifications_processed_this_cycle, skipped_this_round_total>>

\* one iteration of the for loop up to "if is_skipped_this_notif: continue"
BotClassifyNotif(p, faults) ==
  /\ config.program = "bot.py"
  /\ pc[p] = "classify"
  /\ notifications[p] # <<>>
  /\ LET n    == Head(notifications[p])
         rest == Tail(notifications[p])
         d    == BotClassify(n, processed_uris[p])
     IN /\ notif' = [notif EXCEPT ![p] = n]
        /\ notifications' = [notifications EXCEPT ![p] = rest]
        /\ IF BotRecordsOnSkip(n, d)
             THEN \E ok \in WriteResults(faults) :
                    /\ RecordUri(p, n.uri, ok)
                    /\ skipped_this_round_total' =
                         IF ok THEN Incr(skipped_this_round_total, p)
                         ELSE skipped_this_round_total
                    /\ BotHandler(p, ~ok)
                    /\ pc' = [pc EXCEPT ![p] = IF ok THEN NextPc(rest) ELSE OnException]
                    /\ ev' = Event("classify", p, n, d, ok, NoText)
             ELSE /\ UNCHANGED <<file, processed_uris, appended>>
                  /\ skipped_this_round_total' =
                       IF d = "eligible" THEN skipped_this_round_total
                       ELSE Incr(skipped_this_round_total, p)
                  \* an eligible notification: consecutive_idle_cycles = 0
                  /\ BotHandler(p, d = "eligible")
                  /\ pc' = [pc EXCEPT ![p] = IF d = "eligible" THEN "fetch" ELSE NextPc(rest)]
                  /\ ev' = Event("classify", p, n, d, TRUE, NoText)
  /\ UNCHANGED <<config, envVars, PROCESSED_NOTIFS_THIS_RUN, pipeline,
                 current_batch_latest_timestamp, cycleStore, attempts,
                 new_notifications_processed_this_cycle, notifications_fetched_count>>

\* fetch_thread_context, and "if not most_recent_post: record, continue"
BotFetchThread(p, faults) ==
  /\ config.program = "bot.py"
  /\ pc[p] = "fetch"
  /\ \E o \in ThreadResults(faults) :
       LET ctx == FetchThreadContext(o) IN
       IF ctx.mrp = NoPost
         THEN \E ok \in WriteResults(faults) :
                /\ RecordUri(p, notif[p].uri, ok)
                /\ BotHandler(p, ~ok)
                /\ IF ok THEN ClearPipeline(p) ELSE UNCHANGED pipeline
                /\ pc' = [pc EXCEPT ![p] = IF ok THEN NextPc(notifications[p]) ELSE OnException]
                /\ ev' = Event("get_post_thread", p, notif[p], "empty", ok, NoText)
         ELSE /\ thread_history' = [thread_history EXCEPT ![p] = ctx.th]
              /\ most_recent_post' = [most_recent_post EXCEPT ![p] = ctx.mrp]
              /\ Called(p, "fetch_thread_context")
              /\ UNCHANGED <<file, processed_uris, appended, reply_text, key_index,
                             model_to_try, reply_to, consecutive_idle_cycles>>
              /\ pc' = [pc EXCEPT ![p] = "generate"]
              /\ ev' = Event("get_post_thread", p, notif[p], "context", TRUE, NoText)
  /\ UNCHANGED <<config, envVars, PROCESSED_NOTIFS_THIS_RUN, notifications, notif,
                 current_batch_latest_timestamp, cycleStore, attempts, cycleCounts>>

\* get_openrouter_reply, one completion call of its model loop; on return:
\* "if not reply_text: record, continue", else the truncation
BotGenerate(p, faults) ==
  /\ config.program = "bot.py"
  /\ pc[p] = "generate"
  /\ \E o \in CompletionResults(faults) :
       LET a == BotAttempt(model_to_try[p], o, notif[p].slot) IN
       IF ~a.done
         THEN /\ model_to_try' = [model_to_try EXCEPT ![p] = a.model]
              /\ UNCHANGED <<file, processed_uris, appended, pc, thread_history,
                             most_recent_post, reply_text, key_index, reply_to, calls,
                             consecutive_idle_cycles>>
              /\ ev' = Event("completion", p, notif[p], "failed", FALSE, NoText)
         ELSE IF IsEmptyText(a.text)
           THEN \E ok \in WriteResults(faults) :
                  /\ RecordUri(p, notif[p].uri, ok)
                  /\ BotHandler(p, ~ok)
                  /\ IF ok THEN ClearPipeline(p) ELSE UNCHANGED pipeline
                  /\ pc' = [pc EXCEPT ![p] = IF ok THEN NextPc(notifications[p]) ELSE OnException]
                  /\ ev' = Event("completion", p, notif[p], "empty", ok, a.text)
           ELSE /\ reply_text' = [reply_text EXCEPT ![p] = Truncate(a.text)]
                /\ reply_to' = [reply_to EXCEPT ![p] = ReplyRef(notif[p])]
                /\ Called(p, "get_openrouter_reply")
                /\ UNCHANGED <<file, processed_uris, appended, thread_history,
                               most_recent_post, key_index, model_to_try,
                               consecutive_idle_cycles>>
                /\ pc' = [pc EXCEPT ![p] = "send"]
                /\ ev' = Event("completion", p, notif[p], "text", TRUE, a.text)
  /\ UNCHANGED <<config, envVars, PROCESSED_NOTIFS_THIS_RUN, notifications, notif,
                 current_batch_latest_timestamp, cycleStore, attempts, cycleCounts>>

\* client.send_post(text=reply_text, reply_to=...): it posts, or it raises
BotSendPost(p, faults) ==
  /\ config.program = "bot.py"
  /\ pc[p] = "send"
  /\ \E ok \in SendResults(faults) :
       /\ replies' = [replies EXCEPT ![notif[p].slot] = IF ok THEN @ + 1 ELSE @]
       /\ pc' = [pc EXCEPT ![p] = IF ok THEN "record" ELSE OnException]
       /\ IF ok THEN Called(p, "send_post") ELSE UNCHANGED calls
       /\ BotHandler(p, ~ok)
       /\ ev' = Event("send_post", p, notif[p], "", ok, reply_text[p])
  /\ UNCHANGED <<config, server, seenAt, file, processed_uris,
                 PROCESSED_NOTIFS_THIS_RUN, notifications, notif, thread_history,
                 most_recent_post, reply_text, key_index, model_to_try, reply_to,
                 current_batch_latest_timestamp, cycleStore, attempts, appended,
                 cycleCounts>>

\* after send_post: append_processed_uri(notif.uri); processed_uris.add
BotRecord(p, faults) ==
  /\ config.program = "bot.py"
  /\ pc[p] = "record"
  /\ \E ok \in WriteResults(faults) :
       /\ RecordUri(p, notif[p].uri, ok)
       /\ new_notifications_processed_this_cycle' =
            IF ok THEN Incr(new_notifications_processed_this_cycle, p)
            ELSE new_notifications_processed_this_cycle
       /\ BotHandler(p, ~ok)
       /\ IF ok THEN ClearPipeline(p) ELSE UNCHANGED pipeline
       /\ pc' = [pc EXCEPT ![p] = IF ok THEN NextPc(notifications[p]) ELSE OnException]
       /\ ev' = Event("append_processed_uri", p, notif[p], "", ok, NoText)
  /\ UNCHANGED <<config, envVars, PROCESSED_NOTIFS_THIS_RUN, notifications, notif,
                 current_batch_latest_timestamp, cycleStore, attempts,
                 notifications_fetched_count, skipped_this_round_total>>

\* bot.py, "if notifications_fetched_count > 0 and skipped_this_round_total ==
\* notifications_fetched_count: all_skipped = True" at the end of the for
\* loop (an exception leaves the loop with fewer skipped than fetched)
AllSkipped(p) ==
  /\ notifications_fetched_count[p] > 0
  /\ skipped_this_round_total[p] = notifications_fetched_count[p]

\* bot.py, the idle bookkeeping after the try/except
BotIdleCycles(p) ==
  IF new_notifications_processed_this_cycle[p] > 0 THEN 0
  ELSE IF AllSkipped(p) THEN consecutive_idle_cycles[p] + 1
  ELSE IF notifications_fetched_count[p] = 0 THEN consecutive_idle_cycles[p] + 1
  ELSE consecutive_idle_cycles[p]

\* after the try/except: the idle bookkeeping and time.sleep; after a
\* malformed response: time.sleep alone
BotEndCycle(p, idleCap) ==
  /\ config.program = "bot.py"
  /\ pc[p] \in {"endcycle", "malformed"}
  /\ consecutive_idle_cycles' =
       [consecutive_idle_cycles EXCEPT ![p] =
          IF pc[p] = "malformed" THEN @ ELSE Capped(BotIdleCycles(p), idleCap)]
  /\ ClearCycleCounts(p)
  /\ pc' = [pc EXCEPT ![p] = "poll"]
  /\ notifications' = [notifications EXCEPT ![p] = <<>>]
  /\ notif' = [notif EXCEPT ![p] = NoNotif]
  /\ ClearPipeline(p)
  /\ ev' = Event("sleep", p, NoNotif, MENTION_CHECK_INTERVAL_SECONDS, TRUE, NoText)
  /\ UNCHANGED <<config, envVars, file, processed_uris, PROCESSED_NOTIFS_THIS_RUN,
                 current_batch_latest_timestamp, cycleStore, attempts, appended>>

\* an interrupt that ends the process with a failure status
ExitOnInterrupt_Failure == "1"

\* except KeyboardInterrupt: ...  finally: sys.exit(0)
ExitOnInterrupt == "0"

\* the interrupt: KeyboardInterrupt is raised at whatever point of the cycle
\* the process is in, no except clause of the cycle catches it (they catch
\* Exception), the handler around the while loop does, and the finally clause
\* exits. The memory of the process is lost; the next start is a restart
Stop(p) ==
  /\ pc[p] # "down"
  /\ pc' = [pc EXCEPT ![p] = "down"]
  /\ processed_uris' = [processed_uris EXCEPT ![p] = {}]
  /\ PROCESSED_NOTIFS_THIS_RUN' = {}
  /\ notifications' = [notifications EXCEPT ![p] = <<>>]
  /\ notif' = [notif EXCEPT ![p] = NoNotif]
  /\ ClearPipeline(p)
  /\ current_batch_latest_timestamp' = 0
  /\ cycleStore' = [cycleStore EXCEPT ![p] = {}]
  /\ consecutive_idle_cycles' = [consecutive_idle_cycles EXCEPT ![p] = 0]
  /\ ClearCycleCounts(p)
  /\ ev' = Event("stop", p, NoNotif, ExitOnInterrupt, TRUE, NoText)
  /\ UNCHANGED <<config, envVars, file, attempts, appended>>

BotStep(p, faults, idleCap) ==
  \/ BotStart(p)
  \/ BotPoll(p, faults)
  \/ BotClassifyNotif(p, faults)
  \/ BotFetchThread(p, faults)
  \/ BotGenerate(p, faults)
  \/ BotSendPost(p, faults)
  \/ BotRecord(p, faults)
  \/ BotEndCycle(p, idleCap)

(* ------------------------------ server.py ------------------------------ *)
\* server.py runs as process 1
Srv == 1

\* the for loop of server.py: next notification, or on to update_seen
\* ("if current_batch_latest_timestamp:"), or straight to the idle bookkeeping
SrvNextPc(rest, ts) ==
  IF rest # <<>> THEN "classify" ELSE IF ts # 0 THEN "update_seen" ELSE "endcycle"

\* the service reports as read what was indexed up to its seen marker
AsListed(srv, seen) == [i \in DOMAIN srv |-> [srv[i] EXCEPT !.is_read = (srv[i].indexed_at <= seen)]]

\* the timestamp of the first notification of the sorted batch
LatestTimestamp_First(batch) == batch[1].indexed_at

\* current_batch_latest_timestamp = notifications[-1].indexed_at
LatestTimestamp(batch) == batch[Len(batch)].indexed_at

\* main(), startup: load_env_and_config_files, then on to the loop
SrvStart ==
  /\ config.program = "server.py"
  /\ pc[Srv] = "down"
  /\ IF config.startup = "ok"
       THEN /\ pc' = [pc EXCEPT ![Srv] = "poll"]
            /\ ev' = Event("start", Srv, NoNotif, "", TRUE, NoText)
       ELSE /\ ev' = Event("sys.exit", Srv, NoNotif, SrvStartupExit, FALSE, NoText)
            /\ UNCHANGED pc
  /\ UNCHANGED <<config, envVars, file, processed_uris, PROCESSED_NOTIFS_THIS_RUN,
                 locals, current_batch_latest_timestamp, cycleStore, attempts, appended, idle>>

\* top of the while loop: list_notifications, sorted by indexed_at
SrvPoll ==
  /\ config.program = "server.py"
  /\ pc[Srv] = "poll"
  /\ \E r \in {"ok", "error"} :
       /\ ev' = Event("list_notifications", Srv, NoNotif, r, r = "ok", NoText)
       /\ IF r = "ok"
            THEN LET batch == SortedByIndexedAt(
                                ListNotifications(AsListed(server, seenAt),
                                                  NOTIFICATION_FETCH_LIMIT))
                     ts == IF batch = <<>> THEN 0 ELSE LatestTimestamp(batch)
                 IN /\ notifications' = [notifications EXCEPT ![Srv] = batch]
                    /\ notifications_fetched_count' =
                         [notifications_fetched_count EXCEPT ![Srv] = Len(batch)]
                    /\ current_batch_latest_timestamp' = ts
                    /\ pc' = [pc EXCEPT ![Srv] = SrvNextPc(batch, ts)]
            ELSE /\ UNCHANGED <<notifications, current_batch_latest_timestamp,
                               notifications_fetched_count>>
                 /\ pc' = [pc EXCEPT ![Srv] = OnException]
  /\ UNCHANGED <<config, envVars, file, processed_uris, PROCESSED_NOTIFS_THIS_RUN,
                 notif, pipeline, cycleStore, attempts, appended,
                 consecutive_idle_cycles, new_notifications_processed_this_cycle,
                 skipped_this_round_total>>

\* one iteration of the for loop up to PROCESSED_NOTIFS_THIS_RUN.add(notif.uri)
SrvClassifyNotif ==
  /\ config.program = "server.py"
  /\ pc[Srv] = "classify"
  /\ notifications[Srv] # <<>>
  /\ LET n    == Head(notifications[Srv])
         rest == Tail(notifications[Srv])
         d    == SrvClassify(n, PROCESSED_NOTIFS_THIS_RUN)
     IN /\ notif' = [notif EXCEPT ![Srv] = n]
        /\ notifications' = [notifications EXCEPT ![Srv] = rest]
        /\ PROCESSED_NOTIFS_THIS_RUN' =
             IF SrvAddsToProcessed(d) THEN PROCESSED_NOTIFS_THIS_RUN \cup {n.uri}
             ELSE PROCESSED_NOTIFS_THIS_RUN
        /\ pc' = [pc EXCEPT ![Srv] =
                    IF d = "raise" THEN OnException
                    ELSE IF d = "eligible" THEN "dupecheck"
                    ELSE SrvNextPc(rest, current_batch_latest_timestamp)]
        /\ calls' = [calls EXCEPT ![Srv] =
                       IF d = "eligible" /\ SrvAddsToProcessed(d)
                         THEN <<"PROCESSED_NOTIFS_THIS_RUN.add">> ELSE <<>>]
        /\ ev' = Event("classify", Srv, n, d, d # "raise", NoText)
  /\ UNCHANGED <<config, envVars, file, processed_uris, thread_history,
                 most_recent_post, reply_text, key_index, model_to_try, reply_to,
                 current_batch_latest_timestamp, cycleStore, attempts, appended, idle>>

\* has_bot_already_replied(client, BLUESKY_HANDLE, notif.uri)
SrvDupeCheck ==
  /\ config.program = "server.py"
  /\ pc[Srv] = "dupecheck"
  /\ \E o \in {x \in ThreadOutcomes : x.posts = <<>>} :
       LET dup == HasBotAlreadyReplied(o, replies[notif[Srv].slot]) IN
       /\ pc' = [pc EXCEPT ![Srv] =
                   IF dup THEN SrvNextPc(notifications[Srv], current_batch_latest_timestamp)
                   ELSE "fetch"]
       /\ IF dup THEN ClearPipeline(Srv)
          ELSE /\ Called(Srv, "has_bot_already_replied")
               /\ UNCHANGED <<thread_history, most_recent_post, reply_text,
                              key_index, model_to_try, reply_to>>
       /\ ev' = Event("has_bot_already_replied", Srv, notif[Srv],
                      IF dup THEN "replied" ELSE "not-replied", o.kind = "thread", NoText)
  /\ UNCHANGED <<config, envVars, file, processed_uris, PROCESSED_NOTIFS_THIS_RUN,
                 notifications, notif, current_batch_latest_timestamp, cycleStore,
                 attempts, appended, idle>>

\* fetch_thread_context, and "if not most_recent_post: continue"
SrvFetchThread ==
  /\ config.program = "server.py"
  /\ pc[Srv] = "fetch"
  /\ \E o \in ThreadOutcomes :
       LET ctx == FetchThreadContext(o) IN
       IF ctx.mrp = NoPost
         THEN /\ ClearPipeline(Srv)
              /\ pc' = [pc EXCEPT ![Srv] =
                          SrvNextPc(notifications[Srv], current_batch_latest_timestamp)]
              /\ ev' = Event("get_post_thread", Srv, notif[Srv], "empty", TRUE, NoText)
         ELSE /\ thread_history' = [thread_history EXCEPT ![Srv] = ctx.th]
              /\ most_recent_post' = [most_recent_post EXCEPT ![Srv] = ctx.mrp]
              /\ Called(Srv, "fetch_thread_context")
              /\ UNCHANGED <<reply_text, key_index, model_to_try, reply_to>>
              /\ pc' = [pc EXCEPT ![Srv] = "generate"]
              /\ ev' = Event("get_post_thread", Srv, notif[Srv], "context", TRUE, NoText)
  /\ UNCHANGED <<config, envVars, file, processed_uris, PROCESSED_NOTIFS_THIS_RUN,
                 notifications, notif, current_batch_latest_timestamp, cycleStore, attempts, appended, idle>>

\* get_ai_reply: one completion call (Gemini directly, or the key/model loops
\* of get_openrouter_reply); on return "if not reply_text: continue", else
\* the truncation
SrvGenerate ==
  /\ config.program = "server.py"
  /\ pc[Srv] = "generate"
  /\ \E o \in Outcomes :
       LET a == IF config.USE_GEMINI_DIRECTLY
                  THEN GeminiAttempt(o, notif[Srv].slot)
                  ELSE SrvAttempt(key_index[Srv], model_to_try[Srv], o, notif[Srv].slot,
                                  config.OPENROUTER_API_KEY_SECONDARY)
       IN IF ~a.done
            THEN /\ key_index' = [key_index EXCEPT ![Srv] = a.key]
                 /\ model_to_try' = [model_to_try EXCEPT ![Srv] = a.model]
                 /\ UNCHANGED <<pc, thread_history, most_recent_post, reply_text,
                                reply_to, calls>>
                 /\ ev' = Event("completion", Srv, notif[Srv], "failed", FALSE, NoText)
            ELSE IF IsEmptyText(a.text)
              THEN /\ ClearPipeline(Srv)
                   /\ pc' = [pc EXCEPT ![Srv] =
                               SrvNextPc(notifications[Srv], current_batch_latest_timestamp)]
                   /\ ev' = Event("completion", Srv, notif[Srv], "empty", TRUE, a.text)
              ELSE /\ reply_text' = [reply_text EXCEPT ![Srv] = Truncate(a.text)]
                   /\ reply_to' = [reply_to EXCEPT ![Srv] = ReplyRef(notif[Srv])]
                   /\ Called(Srv, "get_ai_reply")
                   /\ UNCHANGED <<thread_history, most_recent_post, key_index, model_to_try>>
                   /\ pc' = [pc EXCEPT ![Srv] = "send"]
                   /\ ev' = Event("completion", Srv, notif[Srv], "text", TRUE, a.text)
  /\ UNCHANGED <<config, envVars, file, processed_uris, PROCESSED_NOTIFS_THIS_RUN,
                 notifications, notif, current_batch_latest_timestamp, cycleStore, attempts, appended, idle>>

\* client.send_post(text=reply_text, reply_to=...): it posts, or it raises
SrvSendPost ==
  /\ config.program = "server.py"
  /\ pc[Srv] = "send"
  /\ \E ok \in SendResults(TRUE) :
       /\ replies' = [replies EXCEPT ![notif[Srv].slot] = IF ok THEN @ + 1 ELSE @]
       /\ IF ok THEN ClearPipeline(Srv) ELSE UNCHANGED pipeline
       /\ new_notifications_processed_this_cycle' =
            IF ok THEN Incr(new_notifications_processed_this_cycle, Srv)
            ELSE new_notifications_processed_this_cycle
       /\ pc' = [pc EXCEPT ![Srv] =
                   IF ok THEN SrvNextPc(notifications[Srv], current_batch_latest_timestamp)
                   ELSE OnException]
       /\ ev' = Event("send_post", Srv, notif[Srv], "", ok, reply_text[Srv])
  /\ UNCHANGED <<config, server, seenAt, file, processed_uris,
                 PROCESSED_NOTIFS_THIS_RUN, notifications, notif,
                 current_batch_latest_timestamp, cycleStore, attempts, appended,
                 consecutive_idle_cycles, notifications_fetched_count,
                 skipped_this_round_total>>

\* after the for loop: update_seen({"seenAt": current_batch_latest_timestamp}),
\* inside its own try/except
SrvUpdateSeen ==
  /\ config.program = "server.py"
  /\ pc[Srv] = "update_seen"
  /\ \E ok \in BOOLEAN :
       /\ seenAt' = IF ok THEN current_batch_latest_timestamp ELSE seenAt
       /\ ev' = Event("update_seen", Srv, NoNotif, "", ok, NoText)
  /\ pc' = [pc EXCEPT ![Srv] = "endcycle"]
  /\ UNCHANGED <<config, server, replies, file, processed_uris,
                 PROCESSED_NOTIFS_THIS_RUN, locals,
                 current_batch_latest_timestamp, cycleStore, attempts, appended, idle>>

\* server.py, the idle bookkeeping after the try/except
SrvIdleCycles ==
  IF new_notifications_processed_this_cycle[Srv] > 0 THEN 0
  ELSE IF notifications_fetched_count[Srv] > 0 THEN consecutive_idle_cycles[Srv] + 1
  ELSE consecutive_idle_cycles[Srv] + 1

\* after the try/except: the idle bookkeeping and time.sleep
SrvEndCycle(idleCap) ==
  /\ config.program = "server.py"
  /\ pc[Srv] = "endcycle"
  /\ consecutive_idle_cycles' =
       [consecutive_idle_cycles EXCEPT ![Srv] = Capped(SrvIdleCycles, idleCap)]
  /\ ClearCycleCounts(Srv)
  /\ pc' = [pc EXCEPT ![Srv] = "poll"]
  /\ notifications' = [notifications EXCEPT ![Srv] = <<>>]
  /\ notif' = [notif EXCEPT ![Srv] = NoNotif]
  /\ ClearPipeline(Srv)
  /\ current_batch_latest_timestamp' = 0
  /\ ev' = Event("sleep", Srv, NoNotif, MENTION_CHECK_INTERVAL_SECONDS, TRUE, NoText)
  /\ UNCHANGED <<config, envVars, file, processed_uris, PROCESSED_NOTIFS_THIS_RUN,
                 cycleStore, attempts, appended>>

SrvStep(idleCap) ==
  \/ SrvStart
  \/ SrvPoll
  \/ SrvClassifyNotif
  \/ SrvDupeCheck
  \/ SrvFetchThread
  \/ SrvGenerate
  \/ SrvSendPost
  \/ SrvUpdateSeen
  \/ SrvEndCycle(idleCap)

(* --------------------------- specifications ---------------------------- *)
\* one process (bot.py or server.py, as configured), every call may fail,
\* the process is stopped and restarted at will
Next == Arrive(Shapes) \/ BotStep(1, TRUE, 0) \/ SrvStep(0) \/ Stop(1)
Spec == Init /\ [][Next]_vars

\* two bot.py processes on the same account and the same file, never stopped,
\* with a service, a backend and a storage that do not fail, and only
\* eligible mentions arriving
InitTwo == Init /\ config.program = "bot.py" /\ config.startup = "ok"
NextTwo == Arrive(EligibleShapes) \/ \E p \in Procs : BotStep(p, FALSE, 0)
SpecTwo == InitTwo /\ [][NextTwo]_vars

\* replies to posts of a thread: one process (bot.py with a service that
\* does not fail, or server.py), never stopped, and notifications whose
\* record may carry a reply root
NextReply == Arrive(ReplyShapes) \/ BotStep(1, FALSE, 0) \/ SrvStep(0)
SpecReply == Init /\ [][NextReply]_vars

\* one run of bot.py: the process is started once and never stopped; every
\* call may fail, and only eligible mentions arrive
InitRun == Init /\ config.program = "bot.py" /\ config.startup = "ok"
NextRun == Arrive(EligibleShapes) \/ BotStep(1, TRUE, 0)
SpecRun == InitRun /\ [][NextRun]_vars

\* the idle bookkeeping: one process (bot.py or server.py), never stopped,
\* every call may fail, mentions and likes of one author arrive, and the
\* idle counter is followed up to MaxIdle
IdleShapes == {s \in Shapes : s.hasUri /\ s.cid # Absent /\ s.did = "did:alice"}
NextIdle == Arrive(IdleShapes) \/ BotStep(1, TRUE, MaxIdle) \/ SrvStep(MaxIdle)
SpecIdle == Init /\ [][NextIdle]_vars

\* the loop as a running program: the process (bot.py or server.py) always
\* takes its next step, every call it makes returns or times out, and the
\* interrupt may come at any point or never
NextLive == Arrive(EligibleShapes) \/ BotStep(1, TRUE, 0) \/ SrvStep(0) \/ Stop(1)
SpecLive == Init /\ [][NextLive]_vars /\ WF_vars(BotStep(1, TRUE, 0) \/ SrvStep(0))

\* one run of server.py: the process is started once and never stopped;
\* every call may fail
InitSrvRun == Init /\ config.program = "server.py" /\ config.startup = "ok"
NextSrvRun == Arrive(Shapes) \/ SrvStep(0)
SpecSrvRun == InitSrvRun /\ [][NextSrvRun]_vars

\* a notification whose reply the service rejects on every attempt (the
\* newest one), with a service and a storage that otherwise answer: the only
\* call that raises is the send_post for that notification.  The thread fetch
\* and the completion calls may still come back empty.
FailingSlot == NumNotifs
OnlySendFails ==
  /\ ev'.op \in {"list_notifications", "classify", "append_processed_uri"} => ev'.ok
  /\ (ev'.op \in {"get_post_thread", "completion"} /\ ev'.res = "empty") => ev'.ok
  /\ ev'.op = "send_post" => (ev'.ok <=> ev'.n.slot # FailingSlot)
StarveStep == (BotStep(1, TRUE, 0) \/ SrvStep(0)) /\ OnlySendFails
InitStarve == Init /\ config.startup = "ok"
NextStarve == Arrive(EligibleShapes) \/ StarveStep
SpecStarve == InitStarve /\ [][NextStarve]_vars /\ WF_vars(StarveStep)

(* ------------------- reply generation on its own ----------------------- *)
\* get_openrouter_reply (bot.py), get_ai_reply (server.py) called for one
\* notification: each step is one completion call of its loops, answered by
\* the backend in any of the possible ways; attempts keeps the calls made
GetReplyCall ==
  /\ pc[1] = "generate"
  /\ \E o \in Outcomes :
       LET k == notif[1].slot
           a == IF config.program = "bot.py" THEN BotAttempt(model_to_try[1], o, k)
                ELSE IF config.USE_GEMINI_DIRECTLY THEN GeminiAttempt(o, k)
                ELSE SrvAttempt(key_index[1], model_to_try[1], o, k,
                                config.OPENROUTER_API_KEY_SECONDARY)
       IN /\ attempts' = Append(attempts, [key |-> key_index[1], model |-> model_to_try[1],
                                            kind |-> o.kind, len |-> o.len])
          /\ IF a.done
               THEN /\ reply_text' = [reply_text EXCEPT ![1] = a.text]
                    /\ pc' = [pc EXCEPT ![1] = "returned"]
                    /\ UNCHANGED <<key_index, model_to_try>>
               ELSE /\ key_index' = [key_index EXCEPT ![1] = a.key]
                    /\ model_to_try' = [model_to_try EXCEPT ![1] = a.model]
                    /\ UNCHANGED <<reply_text, pc>>
          /\ ev' = Event("completion", 1, notif[1], o.kind, a.done, a.text)
  /\ UNCHANGED <<config, envVars, file, processed_uris, PROCESSED_NOTIFS_THIS_RUN,
                 notifications, notif, thread_history, most_recent_post, reply_to,
                 calls, current_batch_latest_timestamp, cycleStore, appended, idle>>

InitGen ==
  /\ config \in {c \in Configs : c.startup = "ok"}
  /\ \E s \in EligibleShapes :
       /\ server = <<Notif(1, s)>>
       /\ notif = [p \in Procs |-> IF p = 1 THEN Notif(1, s) ELSE NoNotif]
  /\ seenAt = 0
  /\ replies = [k \in Slots |-> 0]
  /\ file = <<>>
  /\ pc = [p \in Procs |-> IF p = 1 THEN "generate" ELSE "down"]
  /\ processed_uris = [p \in Procs |-> {}]
  /\ PROCESSED_NOTIFS_THIS_RUN = {}
  /\ notifications = [p \in Procs |-> <<>>]
  /\ thread_history = [p \in Procs |-> <<>>]
  /\ most_recent_post = [p \in Procs |-> IF p = 1 THEN 1 ELSE NoPost]
  /\ reply_text = [p \in Procs |-> NoText]
  /\ key_index = [p \in Procs |-> 1]
  /\ model_to_try = [p \in Procs |-> 1]
  /\ reply_to = [p \in Procs |-> NoReplyRef]
  /\ calls = [p \in Procs |-> <<>>]
  /\ attempts = <<>>
  /\ appended = {}
  /\ consecutive_idle_cycles = [p \in Procs |-> 0]
  /\ new_notifications_processed_this_cycle = [p \in Procs |-> 0]
  /\ notifications_fetched_count = [p \in Procs |-> 0]
  /\ skipped_this_round_total = [p \in Procs |-> 0]
  /\ current_batch_latest_timestamp = 0
  /\ cycleStore = [p \in Procs |-> {}]
  /\ ev = Event("init", 0, NoNotif, "", TRUE, NoText)

NextGen == GetReplyCall
SpecGen == InitGen /\ [][NextGen]_vars

(* ------------- the durable store, character by character -------------- *)
\* processed_uris.txt as the two functions see it: whether the path exists,
\* and the characters of the file.  An identifier is an AT URI: a non-empty
\* string without white space.
UriChars == {"a", "b"}
Whitespace == {" ", "\n"}
Uris == UNION {[1 .. k -> UriChars] : k \in 1 .. MaxUriLen}
NoFile == [exists |-> FALSE, text |-> <<>>]

\* "for line in f": the text cut after every "\n"
RECURSIVE EndOfLine(_, _)
EndOfLine(text, i) ==
  IF i >= Len(text) \/ text[i] = "\n" THEN i ELSE EndOfLine(text, i + 1)

RECURSIVE Lines(_)
Lines(text) ==
  IF text = <<>> THEN <<>>
  ELSE LET i == EndOfLine(text, 1) IN
       <<SubSeq(text, 1, i)>> \o Lines(SubSeq(text, i + 1, Len(text)))

\* line.strip()
RECURSIVE Strip(_)
Strip(line) ==
  IF line = <<>> THEN <<>>
  ELSE IF Head(line) \in Whitespace THEN Strip(Tail(line))
  ELSE IF line[Len(line)] \in Whitespace THEN Strip(SubSeq(line, 1, Len(line) - 1))
  ELSE line

\* a load that keeps the lines as they are read
load_processed_uris_NoStrip(f) ==
  IF ~f.exists THEN {}
  ELSE {l \in Range(Lines(f.text)) : Strip(l) # <<>>}

\* load_processed_uris(): set() when the path does not exist, else
\* set(line.strip() for line in f if line.strip())
load_processed_uris(f) ==
  IF ~f.exists THEN {}
  ELSE {Strip(l) : l \in {x \in Range(Lines(f.text)) : Strip(x) # <<>>}}

\* append_processed_uri(uri): open(path, "a") creates the file when it is
\* missing; f.write(f"{uri}\n")
append_processed_uri(f, uri) ==
  [exists |-> TRUE, text |-> f.text \o uri \o <<"\n">>]

\* how many lines have been written
Written(f) == Len(Lines(f.text))

\* main(): append_processed_uri(notif.uri) for some notification
StoreAppend ==
  /\ Written(file) < MaxAppends
  /\ \E u \in Uris :
       /\ file' = append_processed_uri(file, u)
       /\ appended' = appended \cup {u}
  /\ ev' = Event("append_processed_uri", 1, NoNotif, "", TRUE, NoText)
  /\ UNCHANGED <<config, envVars, pc, processed_uris, PROCESSED_NOTIFS_THIS_RUN,
                 locals, attempts, idle, current_batch_latest_timestamp, cycleStore>>

\* main(), at a start of the program: processed_uris = load_processed_uris()
StoreLoad ==
  /\ processed_uris' = [processed_uris EXCEPT ![1] = load_processed_uris(file)]
  /\ ev' = Event("load_processed_uris", 1, NoNotif, "", TRUE, NoText)
  /\ UNCHANGED <<config, envVars, file, pc, PROCESSED_NOTIFS_THIS_RUN, locals,
                 attempts, appended, idle, current_batch_latest_timestamp, cycleStore>>

\* the backing file does not exist, nothing has been recorded yet
InitStore ==
  /\ config \in {c \in Configs : c.program = "bot.py" /\ c.startup = "ok"}
  /\ server = <<>>
  /\ seenAt = 0
  /\ replies = [k \in Slots |-> 0]
  /\ file = NoFile
  /\ pc = [p \in Procs |-> "down"]
  /\ processed_uris = [p \in Procs |-> {}]
  /\ PROCESSED_NOTIFS_THIS_RUN = {}
  /\ notifications = [p \in Procs |-> <<>>]
  /\ notif = [p \in Procs |-> NoNotif]
  /\ thread_history = [p \in Procs |-> <<>>]
  /\ most_recent_post = [p \in Procs |-> NoPost]
  /\ reply_text = [p \in Procs |-> NoText]
  /\ key_index = [p \in Procs |-> 1]
  /\ model_to_try = [p \in Procs |-> 1]
  /\ reply_to = [p \in Procs |-> NoReplyRef]
  /\ calls = [p \in Procs |-> <<>>]
  /\ attempts = <<>>
  /\ appended = {}
  /\ consecutive_idle_cycles = [p \in Procs |-> 0]
  /\ new_notifications_processed_this_cycle = [p \in Procs |-> 0]
  /\ notifications_fetched_count = [p \in Procs |-> 0]
  /\ skipped_this_round_total = [p \in Procs |-> 0]
  /\ current_batch_latest_timestamp = 0
  /\ cycleStore = [p \in Procs |-> {}]
  /\ ev = Event("init", 0, NoNotif, "", TRUE, NoText)

NextStore == StoreAppend \/ StoreLoad
SpecStore == InitStore /\ [][NextStore]_vars

(* ------------------------------ properties ----------------------------- *)
IsBot == config.program = "bot.py"
IsSrv == config.program = "server.py"

\* how often uri u is written in the durable file
Count(f, u) == Cardinality({i \in DOMAIN f : f[i] = u})

\* the attributes the classification rules speak of
IsMalformed(n) ==
  n.uri = NoUri \/ n.did = Absent \/ n.handle = Absent \/ n.reason = Absent \/ n.cid = Absent
IsIgnored(n) == n.did \in IGNORED_DIDS
IsSelf(n) == n.handle = BLUESKY_HANDLE
WrongReason(n) == n.reason \notin {"mention", "reply"}
Eligible(n) == ~IsMalformed(n) /\ ~IsIgnored(n) /\ ~IsSelf(n) /\ ~WrongReason(n)

\* C1: in bot.py a cycle that starts with identifier I in the durable store
\* issues no send_post anchored at I, whatever restarts came before.
C1_NoSendOnceRecorded ==
  (IsBot /\ ev.op = "send_post") => ev.n.uri \notin cycleStore[ev.p]

\* C1 witness: an answered and recorded notification is seen again in a cycle
\* that started with it in the durable store, and is skipped as duplicate.
C1_Witness ==
  /\ IsBot /\ ev.op = "classify" /\ ev.res = "skip-duplicate"
  /\ ev.n.uri \in cycleStore[ev.p]
  /\ replies[ev.n.slot] = 1

\* C2: with two bot.py processes on one account and one file, no
\* notification is answered twice.
C2_AtMostOneReplyTwoProcesses ==
  \A k \in Slots : replies[k] <= 1

\* C3: in server.py, across poll cycles and restarts, no notification is
\* answered twice.
C3_AtMostOneReplyServer ==
  IsSrv => \A k \in Slots : replies[k] <= 1

\* C4: in bot.py a notification classified skip-duplicate changes neither the
\* durable file nor the in-memory set and posts nothing, the pipeline is not
\* entered for it, and every thread fetch, completion call and send_post is
\* made for a notification whose identifier is not in the de-dup set.
C4_DuplicateIsNoOp ==
  [][ IsBot =>
       /\ (ev'.op = "classify" /\ ev'.res = "skip-duplicate")
            => /\ file' = file
               /\ processed_uris' = processed_uris
               /\ replies' = replies
               /\ pc'[ev'.p] \in {"classify", "endcycle"}
               /\ ev'.n.uri \in processed_uris[ev'.p]
       /\ (ev'.op \in {"get_post_thread", "completion", "send_post"})
            => ev'.n.uri \notin processed_uris[ev'.p]
    ]_vars

\* C4 witness: an identifier loaded from the durable file is classified
\* skip-duplicate while another notification of the batch is still to come.
C4_Witness ==
  /\ IsBot /\ ev.op = "classify" /\ ev.res = "skip-duplicate"
  /\ Count(file, ev.n.uri) = 1
  /\ pc[ev.p] = "classify"

C6_FirstMatchWins ==
  [][ ev'.op = "classify" =>
        LET n == ev'.n
            fresh == IF IsBot THEN n.uri \notin processed_uris[ev'.p]
                     ELSE ~n.is_read /\ n.uri \notin PROCESSED_NOTIFS_THIS_RUN
        IN /\ (IsMalformed(n) /\ IsIgnored(n) /\ n.uri # NoUri)
                => /\ ev'.res # "skip-ignored"
                   /\ (IsBot \/ fresh) => ev'.res = "skip-malformed"
           /\ (IsSelf(n) /\ WrongReason(n) /\ ~IsMalformed(n) /\ ~IsIgnored(n))
                => /\ ev'.res # "skip-wrong-reason"
                   /\ fresh => ev'.res = "skip-self"
    ]_vars

\* C6 witness: server.py has classified a self-notification whose reason is
\* not mention/reply as skip-self.
C6_Witness ==
  /\ IsSrv /\ ev.op = "classify" /\ ev.res = "skip-self" /\ WrongReason(ev.n)

\* C7: in bot.py a notification whose identifier is already in the durable
\* store is never again classified skip-malformed, skip-ignored, skip-self or
\* skip-wrong-reason (every later sighting is skip-duplicate), and no
\* identifier is written to the durable store twice.
C7_RecordedExactlyOnce ==
  [][ IsBot =>
       /\ (ev'.op = "classify"
           /\ ev'.res \in {"skip-malformed", "skip-ignored", "skip-self", "skip-wrong-reason"}
           /\ ev'.n.uri # NoUri)
            => ev'.n.uri \notin Range(file)
       /\ \A k \in Slots : Count(file', k) <= 1
    ]_vars

\* C8: in bot.py and server.py send_post is only ever issued for an eligible
\* notification (all fields, author not ignored, not the bot, mention/reply).
C8_SendOnlyForEligible ==
  ev.op = "send_post" => Eligible(ev.n)

\* C8 witness: a reply has been posted for an eligible notification while a
\* notification of the bot itself is on the account.
C8_Witness ==
  /\ ev.op = "send_post" /\ ev.ok /\ Eligible(ev.n)
  /\ \E i \in DOMAIN server : IsSelf(server[i]) \/ IsIgnored(server[i])

\* C9: in bot.py an eligible notification is recorded as processed when its
\* pipeline ends, whatever the outcome: empty thread, empty reply, a
\* send_post that fails, or a reply posted.
C9_RecordedWhateverTheOutcome ==
  ( /\ IsBot
    /\ \/ ev.op = "get_post_thread" /\ ev.res = "empty" /\ ev.ok
       \/ ev.op = "completion" /\ ev.res = "empty" /\ ev.ok
       \/ ev.op = "send_post" /\ ~ev.ok
       \/ ev.op = "append_processed_uri" /\ ev.ok )
    => ev.n.uri \in Range(file)

\* C10: every send_post, in bot.py and server.py, is made for a notification
\* whose thread resolution gave a most-recent post, and carries the non-empty
\* text (truncated if overlong) that the completion call for that same
\* notification returned.
C10_SendCarriesGeneratedText ==
  [][ ev'.op = "send_post" =>
        /\ most_recent_post[ev'.p] # NoPost
        /\ ev'.text = reply_text[ev'.p]
        /\ ev'.text.len > 0
        /\ ev'.text.for = ev'.n.slot
        /\ ev'.n = notif[ev'.p]
    ]_vars

\* C10 witness: a truncated reply has been posted.
C10_Witness ==
  /\ ev.op = "send_post" /\ ev.ok /\ ev.text.ell /\ ev.text.len = MAX_POST_LEN

\* C11 (as stated): in both programs a send_post is made after the thread
\* fetch and the reply generation for the same notification, and the record
\* of the notification as processed is not made before the send_post.
C11_Original ==
  [][ ev'.op = "send_post" =>
        LET c == calls[ev'.p] IN
        /\ \E i, j \in DOMAIN c :
             /\ i < j
             /\ c[i] = "fetch_thread_context"
             /\ c[j] \in {"get_openrouter_reply", "get_ai_reply"}
        /\ \A r \in DOMAIN c :
             c[r] \notin {"append_processed_uri", "PROCESSED_NOTIFS_THIS_RUN.add"}
    ]_vars

\* C11 (amended): in bot.py the calls for an eligible notification are, in
\* this order, thread fetch, reply generation, send_post, and then the record
\* in the durable store; in server.py the notification is recorded in
\* PROCESSED_NOTIFS_THIS_RUN first, and then come the already-replied check,
\* the thread fetch, the reply generation and the send_post.
C11_PipelineOrder ==
  [][ /\ (IsBot /\ ev'.op = "send_post")
          => calls[ev'.p] = <<"fetch_thread_context", "get_openrouter_reply">>
      /\ (IsBot /\ ev'.op = "append_processed_uri")
          => calls[ev'.p] = <<"fetch_thread_context", "get_openrouter_reply", "send_post">>
      /\ (IsSrv /\ ev'.op = "send_post")
          => /\ calls[ev'.p] = <<"PROCESSED_NOTIFS_THIS_RUN.add", "has_bot_already_replied",
                                 "fetch_thread_context", "get_ai_reply">>
             /\ ev'.n.uri \in PROCESSED_NOTIFS_THIS_RUN
    ]_vars

\* C11 witness: bot.py has posted a reply and then recorded the notification.
C11_Witness ==
  /\ IsBot /\ ev.op = "append_processed_uri" /\ ev.ok
  /\ replies[ev.n.slot] >= 1 /\ ev.n.uri \in Range(file)

\* C12: in bot.py, after a send_post that succeeded, the process does not go
\* on to the next notification or to the next poll cycle unless the
\* notification's identifier is in the durable store.
C12_RecordedBeforeMovingOn ==
  [][ \A p \in Procs :
        (IsBot /\ pc[p] = "record" /\ pc'[p] \in {"classify", "endcycle", "poll"})
          => notif[p].uri \in Range(file')
    ]_vars

\* the characters of the generated text that a posted text retains
Kept(t) == t.len - (IF t.ell THEN ELLIPSIS_LEN ELSE 0)

\* C13: a generated reply of at most 300 characters is posted unchanged; a
\* longer one is posted as its first 297 characters followed by the
\* 3-character ellipsis, 300 characters in all; no posted text is longer
\* than 300 characters.
C13_TruncationAt300 ==
  [][ /\ (ev'.op = "completion" /\ ev'.res = "text")
          => LET t == ev'.text
                 posted == reply_text'[ev'.p]
             IN IF t.len <= 300
                  THEN posted = t
                  ELSE /\ posted.ell /\ Kept(posted) = 297 /\ posted.len = 300
                       /\ posted.for = t.for
      /\ ev'.op = "send_post"
          => /\ ev'.text.len <= 300
             /\ ev'.text = reply_text[ev'.p]
    ]_vars

\* C13 witness: a generated reply of exactly 300 characters has been posted
\* untouched.
C13_Witness ==
  /\ ev.op = "send_post" /\ ev.ok
  /\ ev.text.len = 300 /\ ~ev.text.ell

\* get_openrouter_reply is the generator in use (not the direct Gemini call)
UsesOpenRouter == IsBot \/ ~config.USE_GEMINI_DIRECTLY
HasSecondary == IsSrv /\ config.OPENROUTER_API_KEY_SECONDARY
LastAttempt == attempts[Len(attempts)]
TextOf(a) == [len |-> a.len, ell |-> FALSE, for |-> notif[1].slot]

\* C14 (as stated): get_openrouter_reply tries the models in configured
\* order, a failing model is followed by a call to the next model, no call
\* follows a well-formed answer, the answer's text is what is returned, and
\* when the last model is the first to answer after all the models before it
\* were tried and failed, it has been called after exactly NumModels calls.
C14_Original ==
  UsesOpenRouter =>
    /\ \A i \in DOMAIN attempts :
         /\ i < Len(attempts) =>
              /\ attempts[i].kind # "text"
              /\ attempts[i].model < NumModels
                   => attempts[i + 1].model = attempts[i].model + 1
         /\ ( /\ attempts[i].kind = "text"
              /\ attempts[i].model = NumModels
              /\ \A j \in 1 .. i - 1 : attempts[j].model < NumModels )
              => i = NumModels
    /\ (pc[1] = "returned" /\ LastAttempt.kind = "text")
         => reply_text[1] = TextOf(LastAttempt)

\* C14 (amended): get_openrouter_reply makes its calls in configured order
\* (credential by credential, and model by model under a credential), makes
\* no call after a well-formed answer and returns that answer's text, and
\* returns empty without a well-formed answer only when the last model of the
\* last credential has failed.  A failing model is followed by the next model
\* of the same credential, except in server.py after an HTTP 429 under the
\* primary credential with a secondary one configured.  Under the first
\* credential the i-th call is made to the i-th model, so with three models
\* of which the first two fail and the third answers, the text returned is
\* the third's after exactly three calls, unless that 429 case occurred.
C14_FirstAnswerWins ==
  UsesOpenRouter =>
    /\ attempts # <<>> => (attempts[1].key = 1 /\ attempts[1].model = 1)
    /\ \A i \in DOMAIN attempts :
         /\ attempts[i].key = 1 => attempts[i].model = i
         /\ i < Len(attempts) =>
              /\ attempts[i].kind # "text"
              /\ \/ /\ attempts[i + 1].key = attempts[i].key
                       /\ attempts[i + 1].model = attempts[i].model + 1
                 \/ /\ HasSecondary
                       /\ attempts[i].key = 1 /\ attempts[i + 1].key = 2
                       /\ attempts[i + 1].model = 1
                       /\ (attempts[i].model = NumModels \/ attempts[i].kind = "http429")
    /\ pc[1] = "returned" =>
         /\ reply_text[1] = IF LastAttempt.kind = "text" THEN TextOf(LastAttempt) ELSE NoText
         /\ LastAttempt.kind # "text"
              => /\ LastAttempt.model = NumModels
                 /\ HasSecondary => LastAttempt.key = 2

\* C14 witness: bot.py with three models, the first rate-limited, the second
\* timed out, the third answering: its text is returned after three calls.
C14_Witness ==
  /\ IsBot /\ pc[1] = "returned" /\ Len(attempts) = 3
  /\ attempts[1].kind = "http429" /\ attempts[2].kind = "timeout"
  /\ attempts[3].kind = "text" /\ attempts[3].model = 3
  /\ reply_text[1] = TextOf(attempts[3]) /\ reply_text[1].len > 0

\* C15: in server.py's get_openrouter_reply a call answered HTTP 429 under
\* the primary credential, a secondary one being configured, is followed by
\* a call to the first model under the secondary credential; after any other
\* failed call, and after a 429 with no further credential, the next call is
\* to the next model under the same credential (after the last model of the
\* primary credential: the first model under the secondary one), and the
\* generator does not return while such a next call is due.
C15_RateLimitSwitchesCredential ==
  (IsSrv /\ UsesOpenRouter) =>
    /\ \A i \in DOMAIN attempts :
         LET a == attempts[i]
             switch == a.kind = "http429" /\ a.key = 1 /\ HasSecondary
         IN /\ i < Len(attempts) =>
                 LET b == attempts[i + 1] IN
                 IF switch THEN b.key = 2 /\ b.model = 1
                 ELSE IF a.model < NumModels
                   THEN b.key = a.key /\ b.model = a.model + 1
                   ELSE a.key = 1 /\ HasSecondary /\ b.key = 2 /\ b.model = 1
            /\ (i = Len(attempts) /\ pc[1] = "returned" /\ a.kind # "text")
                 => ~switch /\ a.model = NumModels
    /\ \A i \in DOMAIN attempts : attempts[i].key = 2 => HasSecondary

\* C15 witness: the first model is rate-limited under the primary credential
\* and the list restarts under the secondary one, where a timeout of the
\* first model is followed by the second model.
C15_Witness ==
  /\ IsSrv /\ HasSecondary /\ Len(attempts) >= 3
  /\ attempts[1].kind = "http429" /\ attempts[1].model < NumModels
  /\ attempts[2].key = 2 /\ attempts[2].model = 1 /\ attempts[2].kind = "timeout"
  /\ attempts[3].key = 2 /\ attempts[3].model = 2

\* C16: reply generation returns empty only when every configured
\* combination of credential and model has been tried: a well-formed answer
\* whose text is empty once trimmed does not end the iteration.
C16_EmptyOnlyWhenExhausted ==
  (UsesOpenRouter /\ pc[1] = "returned" /\ reply_text[1].len = 0)
    => /\ LastAttempt.model = NumModels
       /\ HasSecondary => LastAttempt.key = 2

\* the posts 1 .. n in root-to-leaf order
Path(n) == [i \in 1 .. n |-> i]

\* C17: fetch_thread_context gives the posts on the path from the thread
\* root to the requested post in root-to-leaf order, the most-recent post
\* being the last of them and the history all the posts before it (never the
\* most-recent post itself); for an empty or unfetchable thread both are
\* empty.
C17_HistoryThenMostRecent ==
  /\ \A o \in ThreadOutcomes :
       LET c == FetchThreadContext(o)
           n == Len(o.posts)
       IN IF o.kind = "thread" /\ n > 0
            THEN /\ c.th = Path(n - 1)
                 /\ c.mrp = n
                 /\ c.th \o <<c.mrp>> = Reverse(o.posts)
            ELSE c.th = <<>> /\ c.mrp = NoPost
  /\ \A p \in Procs :
       IF most_recent_post[p] = NoPost THEN thread_history[p] = <<>>
       ELSE /\ thread_history[p] = Path(most_recent_post[p] - 1)
            /\ most_recent_post[p] \notin Range(thread_history[p])

\* C17 witness: for a thread whose path is [1, 2, 3] the history is [1, 2]
\* and the most-recent post is 3.
C17_Witness ==
  /\ pc[1] = "generate"
  /\ thread_history[1] = <<1, 2>> /\ most_recent_post[1] = 3

\* C18: every reply is posted with parent = the reference (uri, cid) of the
\* triggering notification, and root = the root reference of the triggering
\* record's reply when it has one with both uri and cid, else root = parent.
C18_ReplyAnchoring ==
  [][ ev'.op = "send_post" =>
        LET n == ev'.n
            r == reply_to[ev'.p]
        IN /\ r.parent.uri = n.uri /\ r.parent.cid = n.cid
           /\ r.root = IF n.reply_root.uri # NoUri /\ n.reply_root.cid # Absent
                         THEN n.reply_root ELSE r.parent
    ]_vars

\* C18 witness: bot.py has posted a reply to a notification whose record is a
\* reply with a root reference: the root of the ReplyRef is that reference,
\* not the notification's own.
C18_Witness ==
  /\ IsBot /\ ev.op = "send_post" /\ ev.ok
  /\ ev.n.reply_root.cid # Absent
  /\ reply_to[ev.p].root = ev.n.reply_root
  /\ reply_to[ev.p].root # reply_to[ev.p].parent

CallOps ==
  {"list_notifications", "classify", "has_bot_already_replied", "get_post_thread",
   "completion", "send_post", "append_processed_uri", "update_seen"}

\* C19: once the poll loop runs, a failed notification fetch, thread fetch,
\* completion call, send_post or de-dup write does not end the process: only
\* a stop from outside brings it down, after a failed call the process is in
\* the cycle (at its end, or going on with it), and from the end of the cycle
\* it sleeps and goes to the next poll.
C19_FailuresStayInTheCycle ==
  [][ \A p \in Procs :
        /\ (pc[p] # "down" /\ pc'[p] = "down") => ev'.op = "stop"
        /\ (ev'.p = p /\ ev'.op \in CallOps /\ ~ev'.ok)
             => pc'[p] \in {"endcycle", "malformed", "classify", "fetch", "generate",
                            "update_seen"}
        /\ (pc[p] \in {"endcycle", "malformed"} /\ pc'[p] \notin {pc[p], "down"})
             => pc'[p] = "poll" /\ ev'.op = "sleep"
    ]_vars

\* C19 witness: a send_post has failed and the process is at the end of the
\* cycle, about to sleep and poll again.
C19_Witness ==
  /\ ev.op = "send_post" /\ ~ev.ok
  /\ pc[ev.p] = "endcycle"

\* C20: when the for loop over a fetched batch is left, every notification
\* of the batch has been classified: none is still to be iterated at the end
\* of the cycle.
C20_WholeBatchClassified ==
  \A p \in Procs : pc[p] = "endcycle" => notifications[p] = <<>>

\* C21: within one process the notifications of a batch are handled in
\* non-decreasing indexed_at order (each one is indexed no earlier than the
\* one handled before it in the same batch), and list_notifications is
\* called only when nothing of the previous batch is left to iterate.
C21_BatchInArrivalOrder ==
  [][ /\ ev'.op = "classify" => notif[ev'.p].indexed_at <= ev'.n.indexed_at
      /\ ev'.op = "list_notifications" => notifications[ev'.p] = <<>>
    ]_vars

\* C22: the durable store round-trips: load_processed_uris returns the empty
\* set while the backing file does not exist, otherwise exactly the set of
\* identifiers passed to append_processed_uri so far, and appending an
\* identifier a second time does not change what a load returns.
C22_StoreRoundTrip ==
  [][ /\ ev'.op = "load_processed_uris"
           => /\ processed_uris'[1] = appended
              /\ ~file.exists => processed_uris'[1] = {}
      /\ (ev'.op = "append_processed_uri" /\ appended' = appended)
           => load_processed_uris(file') = load_processed_uris(file)
    ]_vars

\* C22 witness: three appends of two different identifiers, one of them
\* twice, and a load that has returned both.
C22_Witness ==
  /\ ev.op = "load_processed_uris"
  /\ file.exists /\ Written(file) = 3
  /\ Cardinality(appended) = 2
  /\ processed_uris[1] = appended

\* C23: in one run of bot.py an identifier that has got its reply is treated
\* as seen from then on, also when the durable write after the send_post
\* failed: no send_post is issued for a notification that was already
\* answered in this run.
C23_SeenAfterFailedWrite ==
  [][ ev'.op = "send_post" => replies[ev'.n.slot] = 0 ]_vars

\* C24: the de-dup structures only grow: every step keeps the lines of the
\* durable file and adds at most new ones at its end (also the steps that
\* stop and restart the process), and within a run no step takes an
\* identifier out of the in-memory set of bot.py or out of
\* PROCESSED_NOTIFS_THIS_RUN of server.py.
C24_StoresOnlyGrow ==
  [][ /\ Len(file) <= Len(file') /\ SubSeq(file', 1, Len(file)) = file
      /\ ev'.op # "stop" =>
           /\ \A p \in Procs : processed_uris[p] \subseteq processed_uris'[p]
           /\ PROCESSED_NOTIFS_THIS_RUN \subseteq PROCESSED_NOTIFS_THIS_RUN'
    ]_vars

\* C24 witness: a second identifier has just been appended in a cycle that
\* started with the first one in the file, and the in-memory set holds both.
C24_Witness ==
  /\ IsBot /\ ev.ok /\ ev.op \in {"classify", "append_processed_uri"}
  /\ Len(file) = 2 /\ file[1] # file[2]
  /\ cycleStore[ev.p] = {file[1]}
  /\ processed_uris[ev.p] = {file[1], file[2]}

\* C25: every cycle that ends without a posted reply increments the
\* consecutive-idle counter by one (it is followed up to MaxIdle), every
\* cycle with a posted reply resets it to zero, and the sleep that ends the
\* cycle is the configured interval whatever the counter says.
C25_IdleCounter ==
  [][ ev'.op = "sleep" =>
        LET p == ev'.p
            posted == new_notifications_processed_this_cycle[p] > 0
        IN /\ consecutive_idle_cycles'[p] =
                IF posted THEN 0 ELSE Capped(consecutive_idle_cycles[p] + 1, MaxIdle)
           /\ ev'.res = MENTION_CHECK_INTERVAL_SECONDS
    ]_vars

\* the latest indexed_at among the notifications of a batch
MaxIndexedAt(batch) ==
  CHOOSE m \in {batch[i].indexed_at : i \in DOMAIN batch} :
    \A i \in DOMAIN batch : batch[i].indexed_at <= m

\* C26: in server.py the timestamp kept for update_seen is the latest
\* indexed_at of the batch fetched in the cycle and does not change during
\* the cycle; update_seen is called only when the for loop is done, at most
\* once per cycle (the next step of the process is the sleep); when it
\* succeeds the seen marker is that timestamp, when it fails the marker is
\* unchanged and the cycle goes on to the sleep and the next poll.
C26_SeenMarkerOncePerCycle ==
  [][ IsSrv =>
        /\ (ev'.op = "list_notifications" /\ ev'.ok /\ notifications'[Srv] # <<>>)
             => current_batch_latest_timestamp' = MaxIndexedAt(notifications'[Srv])
        /\ current_batch_latest_timestamp' # current_batch_latest_timestamp
             => ev'.op \in {"list_notifications", "sleep", "stop"}
        /\ ev'.op = "update_seen"
             => /\ pc[Srv] = "update_seen" /\ notifications[Srv] = <<>>
                /\ pc'[Srv] = "endcycle"
                /\ seenAt' = IF ev'.ok THEN current_batch_latest_timestamp ELSE seenAt
        /\ seenAt' # seenAt => ev'.op = "update_seen"
        /\ (pc[Srv] = "endcycle" /\ pc'[Srv] \notin {"endcycle", "down"})
             => pc'[Srv] = "poll" /\ ev'.op = "sleep"
    ]_vars

\* C26 witness: a first cycle advanced the marker to the only notification;
\* in a later cycle the batch holds two notifications, update_seen has
\* failed, the marker is unchanged and the process is about to sleep.
C26_Witness ==
  /\ IsSrv /\ ev.op = "update_seen" /\ ~ev.ok
  /\ current_batch_latest_timestamp = 2 /\ seenAt = 1
  /\ pc[Srv] = "endcycle"

\* C27: the read flag is advisory only: a notification that is eligible by
\* its attributes and whose identifier is in no de-dup store of the process
\* is classified eligible and enters the reply pipeline, whether the service
\* reports it as read or not.
C27_ReadFlagAdvisory ==
  [][ ev'.op = "classify" =>
        LET n == ev'.n
            stored == IF IsBot THEN n.uri \in processed_uris[ev'.p]
                      ELSE n.uri \in PROCESSED_NOTIFS_THIS_RUN
        IN (Eligible(n) /\ ~stored) => ev'.res = "eligible"
    ]_vars

\* C28: with the mandatory credentials missing (or, in server.py, the prompt
\* file unreadable) every start of the program ends in an exit with a
\* non-zero code, the poll loop is never entered and list_notifications is
\* never called.
C28_StartupFailureExitsNonZero ==
  [][ config.startup # "ok" =>
        /\ ev'.op # "list_notifications"
        /\ \A p \in Procs : pc'[p] = "down"
        /\ ev'.op = "sys.exit" => ev'.res # "0"
    ]_vars

\* C29: once the loop is entered the process ends only by the interrupt: a
\* step that takes a running process down is the interrupt's exit with code
\* 0, the interrupt can be taken at every point of the cycle, and as long as
\* no interrupt comes every cycle reaches its sleep and the sleep is followed
\* by the next poll.
C29_OnlyInterruptEndsLoop ==
  /\ [](\A p \in Procs : pc[p] # "down" => ENABLED Stop(p))
  /\ [][ \A p \in Procs : (pc[p] # "down" /\ pc'[p] = "down") =>
            (ev'.op = "stop" /\ ev'.p = p /\ ev'.res = "0") ]_vars
  /\ [](pc[1] # "down" => <>(ev.op \in {"sleep", "stop"}))
  /\ [](ev.op = "sleep" => <>(ev.op \in {"list_notifications", "stop"}))

\* the interrupt ends, with exit code 0, a process that has entered the loop
\* and recorded an answered notification
C29_Witness ==
  /\ ev.op = "stop"
  /\ ev.res = "0"
  /\ pc[1] = "down"
  /\ \E u \in appended : TRUE

\* what the components return for their expected failures: no history and no
\* most-recent post for a failed fetch, a response without thread or a thread
\* without posts; no text once the last backend has failed
C30_EmptyOnFailure ==
  /\ \A o \in ThreadOutcomes :
       (o.kind # "thread" \/ o.posts = <<>>) =>
          FetchThreadContext(o) = [th |-> <<>>, mrp |-> NoPost]
  /\ \A o \in Outcomes : \A k \in Slots :
       o.kind # "text" =>
         /\ BotAttempt(NumModels, o, k) = Return(NoText)
         /\ GeminiAttempt(o, k) = Return(NoText)
         /\ SrvAttempt(1, NumModels, o, k, FALSE) = Return(NoText)
         /\ SrvAttempt(2, NumModels, o, k, TRUE) = Return(NoText)

\* C30: thread resolution and reply generation do not raise to the loop.
\* fetch_thread_context is one get_post_thread attempt that leaves the fetch
\* stage whatever it got; a failing backend keeps the generator at work and is
\* not seen by the loop; an empty result makes the loop skip the notification
\* and go on with the rest of the batch (only the recording write of bot.py
\* can still raise there); the components return empty values for their
\* expected failures.
C30_FailuresAreEmptyResults ==
  [][ /\ C30_EmptyOnFailure
      /\ ev'.op \in {"get_post_thread", "completion"} =>
           LET p == ev'.p IN
           /\ ev'.op = "get_post_thread" => (pc[p] = "fetch" /\ pc'[p] # "fetch")
           /\ ev'.res = "context" => (pc'[p] = "generate" /\ most_recent_post'[p] # NoPost)
           /\ ev'.res = "text" => (pc'[p] = "send" /\ reply_text'[p].len > 0)
           /\ ev'.res = "failed" => (pc[p] = "generate" /\ pc'[p] = "generate")
           /\ ev'.res = "empty" =>
                /\ ev'.ok \/ config.program = "bot.py"
                /\ ev'.ok =>
                     /\ notifications'[p] = notifications[p]
                     /\ pc'[p] = IF notifications[p] # <<>> THEN "classify"
                                 ELSE IF config.program = "server.py"
                                         /\ current_batch_latest_timestamp # 0
                                        THEN "update_seen" ELSE "endcycle"
                     /\ most_recent_post'[p] = NoPost
                     /\ reply_text'[p] = NoText
    ]_vars

\* the thread fetch gave no post, the notification was skipped and the loop
\* goes on with the next notification of the batch
C30_Witness ==
  /\ ev.op = "get_post_thread"
  /\ ev.res = "empty"
  /\ ev.ok
  /\ pc[ev.p] = "classify"
  /\ notifications[ev.p] # <<>>

\* C31: in bot.py the in-memory set of every process is a subset of the
\* identifiers a load of the durable file returns, in every reachable state
\* (a write that raises adds nothing to the set).
C31_MemorySubsetOfFile ==
  config.program = "bot.py" =>
    \A p \in Procs : processed_uris[p] \subseteq LoadProcessedUris(file)

\* a write has just raised in a process whose set already holds an
\* identifier recorded earlier in the run
C31_Witness ==
  /\ config.program = "bot.py"
  /\ ev.op \in {"append_processed_uri", "classify", "get_post_thread", "completion"}
  /\ ~ev.ok
  /\ ev.n.uri # NoUri
  /\ CanWrite(file)
  /\ processed_uris[ev.p] # {}
  /\ ev.n.uri \notin processed_uris[ev.p]

\* the notification of slot k was answered or is in the de-dup store of the
\* running program
C32_Settled(k) ==
  \/ replies[k] > 0
  \/ config.program = "bot.py" /\ k \in LoadProcessedUris(file)
  \/ config.program = "server.py" /\ k \in PROCESSED_NOTIFS_THIS_RUN

\* C32: when the send_post for one eligible notification fails on every
\* attempt, every other eligible notification that has arrived is eventually
\* answered or recorded as processed.
C32_NoStarvation ==
  \A k \in Slots \ {FailingSlot} : [](Len(server) >= k => <>C32_Settled(k))

\* the last step was a send_post attempt for the notification of slot k
C33_SendAttempt(k) == ev.op = "send_post" /\ ev.n.slot = k

\* C33: in server.py an eligible notification is in PROCESSED_NOTIFS_THIS_RUN
\* from its classification on, before any call of its pipeline, and within
\* one run a send_post attempt for an identifier, successful or not, is never
\* followed by another one for the same identifier.
C33_OneSendAttemptPerRun ==
  /\ [][ (ev'.op = "classify" /\ ev'.res = "eligible") =>
           /\ ev'.n.uri \notin PROCESSED_NOTIFS_THIS_RUN
           /\ ev'.n.uri \in PROCESSED_NOTIFS_THIS_RUN'
           /\ calls'[Srv] = <<"PROCESSED_NOTIFS_THIS_RUN.add">> ]_vars
  /\ [][ ev'.op \in {"has_bot_already_replied", "get_post_thread", "completion", "send_post"}
           => ev'.n.uri \in PROCESSED_NOTIFS_THIS_RUN ]_vars
  /\ \A k \in Slots :
       [](C33_SendAttempt(k) => [](~C33_SendAttempt(k) => []~C33_SendAttempt(k)))

\* the pipeline of an eligible notification ended without a reply and
\* without update_seen in an earlier cycle of the run (an exception left the
\* cycle), and the notification is now skipped as processed in this run
C33_Witness ==
  /\ ev.op = "classify"
  /\ ev.p = Srv
  /\ ev.res = "skip-duplicate"
  /\ ev.n.reason = "mention" /\ ev.n.did = "did:alice" /\ ev.n.cid # Absent
  /\ replies[ev.n.slot] = 0
  /\ seenAt = 0

\* C34: the already-replied check of server.py fails open.  Whenever the
\* thread cannot be fetched or the call raises, has_bot_already_replied
\* reports False and the pipeline goes on to the thread fetch; it reports
\* True only when the thread was fetched and holds a direct reply of the bot,
\* and only then is the notification dropped at this check.
C34_DupeCheckFailsOpen ==
  [][ /\ \A o \in ThreadOutcomes : \A b \in 0 .. MaxReplies :
           HasBotAlreadyReplied(o, b) <=> (o.kind = "thread" /\ b > 0)
      /\ ev'.op = "has_bot_already_replied" =>
           /\ pc[Srv] = "dupecheck"
           /\ ~ev'.ok => ev'.res = "not-replied"
           /\ ev'.res = "not-replied" =>
                /\ pc'[Srv] = "fetch"
                /\ notif'[Srv] = notif[Srv]
           /\ ev'.res = "replied" =>
                /\ ev'.ok
                /\ replies[ev'.n.slot] > 0
                /\ pc'[Srv] \in {"classify", "update_seen", "endcycle"}
    ]_vars

\* the check could not fetch the thread of a notification the bot has
\* already answered, and the pipeline goes on to the thread fetch
C34_Witness ==
  /\ ev.op = "has_bot_already_replied"
  /\ ~ev.ok
  /\ ev.res = "not-replied"
  /\ replies[ev.n.slot] > 0
  /\ pc[Srv] = "fetch"

C36_OneSleepBetweenPolls ==
  [][ \A p \in Procs :
        /\ (ev'.op = "list_notifications" /\ ev'.p = p) =>
             (pc[p] = "poll" /\ pc'[p] # "poll")
        /\ (pc'[p] = "poll" /\ pc[p] \notin {"poll", "down"}) =>
             /\ ev'.op = "sleep"
             /\ ev'.p = p
             /\ ev'.res = MENTION_CHECK_INTERVAL_SECONDS
        /\ (ev'.op = "sleep" /\ ev'.p = p) =>
             /\ pc[p] \in {"endcycle", "malformed"}
             /\ pc'[p] = "poll"
        /\ (pc[p] = "poll" /\ pc'[p] # "poll") =>
             ev'.op \in {"list_notifications", "stop"}
    ]_vars

\* the service has answered the poll with a malformed response and the
\* process is on its way to the sleep
C36_Witness ==
  /\ ev.op = "list_notifications"
  /\ ev.res = "malformed"
  /\ pc[ev.p] = "malformed"

\* the completion calls one reply generation can make at most
C37_MaxCalls ==
  IF config.program = "bot.py" THEN NumModels
  ELSE IF config.USE_GEMINI_DIRECTLY THEN 1
  ELSE IF config.OPENROUTER_API_KEY_SECONDARY THEN 2 * NumModels
  ELSE NumModels

\* C37: reply generation makes a bounded number of completion calls for one
\* notification.  No (credential, model) combination is called twice, bot.py
\* makes at most |AI_MODEL_LIST| calls and server.py at most
\* 2 x |AI_MODEL_LIST|, and a generation that has made all its calls has
\* returned (a text or the empty text).
C37_BoundedCompletionCalls ==
  /\ \A i, j \in DOMAIN attempts :
       (attempts[i].key = attempts[j].key /\ attempts[i].model = attempts[j].model)
         => i = j
  /\ Len(attempts) <= C37_MaxCalls
  /\ config.program = "bot.py" => Len(attempts) <= NumModels
  /\ config.program = "server.py" => Len(attempts) <= 2 * NumModels
  /\ Len(attempts) = C37_MaxCalls => pc[1] = "returned"

\* server.py with a secondary credential: every model has failed under both
\* credentials and the generator has returned the empty text
C37_Witness ==
  /\ config.program = "server.py"
  /\ config.OPENROUTER_API_KEY_SECONDARY
  /\ Len(attempts) = 2 * NumModels
  /\ pc[1] = "returned"
  /\ reply_text[1] = NoText

\* C38: a malformed notification does not disturb the cycle.  Its
\* classification raises nothing; with an identifier the identifier is then
\* in the de-dup store of the program, without one no store changes; no
\* pipeline call is made for it, and the loop goes on with the rest of the
\* batch (a write to the file that itself fails is the storage's failure,
\* not the notification's).
C38_MalformedHandledQuietly ==
  [][ (ev'.op = "classify" /\ BotMalformed(ev'.n)) =>
        LET p    == ev'.p
            n    == ev'.n
            rest == Tail(notifications[p])
        IN /\ config.program = "server.py" => ev'.ok
           /\ ev'.ok =>
                /\ n.uri # NoUri =>
                     IF config.program = "bot.py"
                       THEN n.uri \in processed_uris'[p]
                            /\ n.uri \in LoadProcessedUris(file')
                       ELSE n.uri \in PROCESSED_NOTIFS_THIS_RUN'
                /\ n.uri = NoUri =>
                     UNCHANGED <<file, processed_uris, PROCESSED_NOTIFS_THIS_RUN>>
                /\ notifications'[p] = rest
                /\ pc'[p] = IF rest # <<>> THEN "classify"
                            ELSE IF config.program = "server.py" THEN "update_seen"
                            ELSE "endcycle"
           /\ pc'[p] \notin {"dupecheck", "fetch", "generate", "send", "record"}
    ]_vars

====
